---- MODULE Spec2Model ----
(***************************************************************************)
(* Verification model of the WLD market-data pipeline:                     *)
(*   - the two SPSC ring buffers (RingBuffer.hpp, recorder.cpp),           *)
(*   - the recorder's producer loop and consumer thread (recorder.cpp),    *)
(*   - the order book, signal engine, strategy and execution simulator     *)
(*     (OrderBookL3.hpp, SignalEngine.hpp, MarketMakerStrategy.hpp,        *)
(*     LiveEngine.hpp).                                                    *)
(***************************************************************************)
EXTENDS Integers, Naturals, Sequences, FiniteSets, TLC

(***************************************************************************)
(* Bounds of the model.                                                    *)
(***************************************************************************)
\* template argument (Capacity / Size) the rings are instantiated with
RingParam == 2
\* number of push calls the producer of the ring harness makes
MaxPushes == 4
\* number of pop calls the consumer of the ring harness makes
MaxPops == 4

\* payloads the harness pushes; 0 is the value-initialised slot content
Items == {1, 2}
NoItem == 0

(***************************************************************************)
(* Arithmetic of the program's number types.  The model checker's own      *)
(* integers are 32 bits wide, the program's are int64_t, unsigned __int128 *)
(* and double, so numbers are kept as digit sequences:                     *)
(*   Big  a natural number, little-endian digits in base 2^15, no leading  *)
(*        zero digit (zero is <<>>);                                       *)
(*   Z    an integer, <<sign, Big>> with sign in {-1, 0, 1};               *)
(*   Dbl  a finite IEEE-754 binary64 value, <<sign, mantissa, exponent>>,  *)
(*        value = sign * mantissa * 2^exponent, 2^52 <= mantissa < 2^53.   *)
(***************************************************************************)
BASE == 2^15

RECURSIVE BigOf(_)
BigOf(n) == IF n = 0 THEN <<>> ELSE <<n % BASE>> \o BigOf(n \div BASE)

RECURSIVE BigToInt(_)
BigToInt(a) == IF a = <<>> THEN 0 ELSE Head(a) + BASE * BigToInt(Tail(a))

Hd(a) == IF a = <<>> THEN 0 ELSE Head(a)
Tl(a) == IF a = <<>> THEN <<>> ELSE Tail(a)

RECURSIVE BigNorm(_)
BigNorm(a) ==
  IF a = <<>> THEN <<>>
  ELSE IF a[Len(a)] = 0 THEN BigNorm(SubSeq(a, 1, Len(a) - 1)) ELSE a

RECURSIVE BigAddC(_, _, _)
BigAddC(a, b, c) ==
  IF a = <<>> /\ b = <<>>
    THEN (IF c = 0 THEN <<>> ELSE <<c>>)
    ELSE LET x == Hd(a) + Hd(b) + c
         IN  <<x % BASE>> \o BigAddC(Tl(a), Tl(b), x \div BASE)

\* a - b for a >= b
RECURSIVE BigSubC(_, _, _)
BigSubC(a, b, c) ==
  IF a = <<>> THEN <<>>
  ELSE LET x == Head(a) - Hd(b) - c
       IN  IF x < 0 THEN <<x + BASE>> \o BigSubC(Tail(a), Tl(b), 1)
                    ELSE <<x>> \o BigSubC(Tail(a), Tl(b), 0)

\* -1, 0, 1 as a < b, a = b, a > b
RECURSIVE BigCmpAt(_, _, _)
BigCmpAt(a, b, i) ==
  IF i = 0 THEN 0
  ELSE IF a[i] < b[i] THEN -1
  ELSE IF a[i] > b[i] THEN 1
  ELSE BigCmpAt(a, b, i - 1)
BigCmp(a, b) ==
  IF Len(a) < Len(b) THEN -1
  ELSE IF Len(a) > Len(b) THEN 1
  ELSE BigCmpAt(a, b, Len(a))

\* a * k + c for 0 <= k, c < BASE
RECURSIVE BigMulSmallC(_, _, _)
BigMulSmallC(a, k, c) ==
  IF a = <<>> THEN (IF c = 0 THEN <<>> ELSE <<c>>)
  ELSE LET x == Head(a) * k + c
       IN  <<x % BASE>> \o BigMulSmallC(Tail(a), k, x \div BASE)

\* a * BASE
BigShift(a) == IF a = <<>> THEN <<>> ELSE <<0>> \o a

\* <<a div k, a mod k>> for a digit 0 < k < BASE, from digit i downwards
RECURSIVE BigDivSmallStep(_, _, _, _, _)
BigDivSmallStep(a, i, k, q, r) ==
  IF i = 0 THEN <<BigNorm(q), r>>
  ELSE LET x == r * BASE + a[i]
       IN  BigDivSmallStep(a, i - 1, k, <<x \div k>> \o q, x % k)

RECURSIVE IntBitLen(_)
IntBitLen(n) == IF n = 0 THEN 0 ELSE 1 + IntBitLen(n \div 2)

RECURSIVE Zeros(_)
Zeros(w) == IF w = 0 THEN <<>> ELSE <<0>> \o Zeros(w - 1)

RECURSIVE BigPow2(_)
BigPow2(k) ==
  IF k < 15 THEN <<2^k>> ELSE <<0>> \o BigPow2(k - 15)

\* number of binary digits of a
BigBitLen(a) ==
  IF a = <<>> THEN 0 ELSE 15 * (Len(a) - 1) + IntBitLen(a[Len(a)])
BigIsOdd(a) == a # <<>> /\ a[1] % 2 = 1

\* Z: mathematical integers
ZMake(sign, mag) == IF mag = <<>> THEN <<0, <<>>>> ELSE <<sign, mag>>
ZOf(n) == IF n = 0 THEN <<0, <<>>>>
          ELSE IF n < 0 THEN <<-1, BigOf(-n)>> ELSE <<1, BigOf(n)>>
ZToInt(x) == x[1] * BigToInt(x[2])
Z0 == <<0, <<>>>>
ZNeg(x) == <<-x[1], x[2]>>
ZAbs(x) == <<x[1] * x[1], x[2]>>
ZSign(x) == x[1]
\* -1, 0, 1 as x < y, x = y, x > y
ZCmp(x, y) ==
  IF x[1] # y[1] THEN (IF x[1] < y[1] THEN -1 ELSE 1)
  ELSE x[1] * BigCmp(x[2], y[2])
ZLt(x, y) == ZCmp(x, y) < 0
ZLe(x, y) == ZCmp(x, y) <= 0
ZGt(x, y) == ZCmp(x, y) > 0
ZGe(x, y) == ZCmp(x, y) >= 0

\* Dbl: finite IEEE-754 binary64 values; 53 mantissa bits
MantBits == 52 + 1
D0 == <<0, <<>>, 0>>
DblNeg(x) == <<-x[1], x[2], x[3]>>
DblAbs(x) == <<x[1] * x[1], x[2], x[3]>>
DblSign(x) == x[1]
DblIsZero(x) == x[1] = 0
\* -1, 0, 1 as x < y, x = y, x > y: every mantissa has 53 bits, so the
\* exponents order the values of one sign
DblCmp(x, y) ==
  IF x[1] # y[1] THEN (IF x[1] < y[1] THEN -1 ELSE 1)
  ELSE IF x[3] # y[3] THEN (IF x[3] < y[3] THEN -x[1] ELSE x[1])
  ELSE x[1] * BigCmp(x[2], y[2])
DblLt(x, y) == DblCmp(x, y) < 0
DblLe(x, y) == DblCmp(x, y) <= 0
DblGt(x, y) == DblCmp(x, y) > 0
DblGe(x, y) == DblCmp(x, y) >= 0

\* decimal text: Dec(5002, 4) is the text "0.5002"
Dec(n, f) == <<IF n < 0 THEN -1 ELSE 1, BigOf(IF n < 0 THEN -n ELSE n), f>>
BadText == <<"not a number">>
IsNumber(t) == Len(t) = 3
BigMulSmall(a, k) == IF k = 0 THEN <<>> ELSE BigMulSmallC(a, k, 0)
BigDivSmall(a, k) == BigDivSmallStep(a, Len(a), k, <<>>, 0)

RECURSIVE BigPow10(_)
BigPow10(k) ==
  IF k = 0 THEN <<1>> ELSE BigMulSmall(BigPow10(k - 1), 10)

(***************************************************************************)
(* The operations that build on one another are evaluated by one recursive *)
(* operator, Num(op, v): op names the operation and v is the tuple of its  *)
(* arguments.  The operators that follow its declaration are the entry     *)
(* points, one per operation; the definition of an operation (its name     *)
(* ends in Def) reaches the other operations through their entry points.   *)
(***************************************************************************)
RECURSIVE Num(_, _)

BigAdd(a, b) == Num("BigAdd", <<a, b>>)
\* a - b for a >= b
BigSub(a, b) == Num("BigSub", <<a, b>>)
BigMul(a, b) == Num("BigMul", <<a, b>>)
\* the largest digit d in lo .. hi with b * d <= r
BigQuotDigit(r, b, lo, hi) == Num("BigQuotDigit", <<r, b, lo, hi>>)
\* long division, digit i of a downwards; q and r accumulate
BigDivStep(a, i, b, q, r) == Num("BigDivStep", <<a, i, b, q, r>>)
\* <<a div b, a mod b>> for b > 0
BigDivMod(a, b) == Num("BigDivMod", <<a, b>>)
BigDiv(a, b) == BigDivMod(a, b)[1]
BigMod(a, b) == BigDivMod(a, b)[2]
\* a * 2^k
BigShl(a, k) == Num("BigShl", <<a, k>>)
\* <<a div 2^k, a mod 2^k>>
BigShr(a, k) == Num("BigShr", <<a, k>>)

ZAdd(x, y) == Num("ZAdd", <<x, y>>)
ZSub(x, y) == ZAdd(x, ZNeg(y))
ZMul(x, y) == ZMake(x[1] * y[1], BigMul(x[2], y[2]))
\* C++ integer division and remainder: the quotient truncates toward zero
ZDivT(x, y) == ZMake(x[1] * y[1], BigDiv(x[2], y[2]))
ZRemT(x, y) == ZMake(x[1], BigMod(x[2], y[2]))
\* mathematical modulo for y > 0
ZMod(x, y) == Num("ZMod", <<x, y>>)
\* n * 10^k
ZE(n, k) == ZMul(ZOf(n), <<1, BigPow10(k)>>)

\* the value an int64_t holds after a computation whose mathematical
\* result is x: two's-complement wrap into [-2^63, 2^63)
Wrap64(x) == Num("Wrap64", <<x>>)
\* int64_t a + b, a - b, a * b
Add64(x, y) == Num("Add64", <<x, y>>)
Sub64(x, y) == Num("Sub64", <<x, y>>)
Mul64(x, y) == Num("Mul64", <<x, y>>)
\* the value an unsigned __int128 holds: reduction modulo 2^128
U128(x) == ZMod(x, <<1, BigPow2(128)>>)
\* std::abs on an int64_t
Abs64(x) == Wrap64(ZAbs(x))

\* Dbl: IEEE-754 binary64 arithmetic, round-to-nearest-even.  Subnormals,
\* infinities and NaN do not arise from the values of the model: a zero
\* divisor and an exponent outside the normal range are not defined.
\* the double nearest to sign * n * 2^e (n > 0); sticky says the exact
\* value exceeds n * 2^e by less than 2^e (n then has more than 54 bits)
DblRound(sign, n, e, sticky) == Num("DblRound", <<sign, n, e, sticky>>)
\* the double nearest to sign * (num / den) * 2^e
DblRatio(sign, num, den, e) == Num("DblRatio", <<sign, num, den, e>>)
\* conversion of an integer to double: static_cast<double>(x)
DblOfZ(x) == Num("DblOfZ", <<x>>)
DblOfInt(n) == DblOfZ(ZOf(n))
DblMul(x, y) == Num("DblMul", <<x, y>>)
DblDiv(x, y) == Num("DblDiv", <<x, y>>)
\* x + y for |x| with the larger exponent
DblAddOrdered(x, y) == Num("DblAddOrdered", <<x, y>>)
DblAdd(x, y) == Num("DblAdd", <<x, y>>)
DblSub(x, y) == DblAdd(x, DblNeg(y))
\* static_cast<int64_t>(x): the fraction is discarded (toward zero)
DblTrunc(x) == Num("DblTrunc", <<x>>)
\* std::stod on a text that is a number: the nearest double
Stod(t) == DblRatio(t[1], t[2], BigPow10(t[3]), 0)
\* the double of a decimal literal of the source
DblLit(n, f) == Stod(Dec(n, f))
\* the exact value of the text times 10^k, when that is an integer
DecScaled(t, k) ==
  IF t[3] <= k THEN ZMake(t[1], BigMul(t[2], BigPow10(k - t[3])))
  ELSE ZMake(t[1], BigDiv(t[2], BigPow10(t[3] - k)))

BigMulDef(a, b) ==
  IF a = <<>> \/ b = <<>> THEN <<>>
  ELSE BigAdd(BigMulSmall(a, Head(b)), BigShift(BigMul(a, Tail(b))))

BigQuotDigitDef(r, b, lo, hi) ==
  IF lo >= hi THEN lo
  ELSE IF BigCmp(BigMulSmall(b, (lo + hi + 1) \div 2), r) <= 0
    THEN BigQuotDigit(r, b, (lo + hi + 1) \div 2, hi)
    ELSE BigQuotDigit(r, b, lo, (lo + hi + 1) \div 2 - 1)

\* the top digits of r1 that face the top digit, digit n, of the divisor
BigTop(r1, n) ==
  IF Len(r1) > n THEN r1[n + 1] * BASE + r1[n]
  ELSE IF Len(r1) = n THEN r1[n] ELSE 0
\* the step with its quotient digit d found
BigDivStepBy(a, i, b, q, r1, d) ==
  BigDivStep(a, i - 1, b, <<d>> \o q, BigSub(r1, BigMulSmall(b, d)))
\* the step on r1, the remainder with digit i of a brought down; rt is
\* BigTop of it.  The top digit of b is at least BASE / 2, so rt and that
\* digit bracket the quotient digit closely.
BigDivStepAt(a, i, b, q, r1, rt) ==
  LET hi == (rt + 1) \div b[Len(b)]
  IN  BigDivStepBy(a, i, b, q, r1,
                   BigQuotDigit(r1, b, rt \div (b[Len(b)] + 1),
                                IF hi < BASE - 1 THEN hi ELSE BASE - 1))
BigDivStepOn(a, i, b, q, r1) ==
  BigDivStepAt(a, i, b, q, r1, BigTop(r1, Len(b)))
BigDivStepDef(a, i, b, q, r) ==
  IF i = 0 THEN <<BigNorm(q), r>>
  ELSE BigDivStepOn(a, i, b, q, BigNorm(<<a[i]>> \o r))

\* qr is <<quotient, remainder>> of the scaled operands
BigDivModBy(qr, k) == <<qr[1], BigDivSmall(qr[2], k)[1]>>
BigDivModScaled(a1, b1, k) ==
  BigDivModBy(BigDivStep(a1, Len(a1), b1, <<>>, <<>>), k)
\* both are scaled by k so that the top digit of the divisor is at least
\* BASE / 2
BigDivModTimes(a, b, k) ==
  BigDivModScaled(BigMulSmall(a, k), BigMulSmall(b, k), k)
BigDivModDef(a, b) == BigDivModTimes(a, b, 2^(15 - IntBitLen(b[Len(b)])))

BigShlDef(a, k) ==
  IF a = <<>> THEN <<>>
  ELSE Zeros(k \div 15) \o BigMulSmall(a, 2^(k % 15))

\* qr is the part of a above digit w, divided by 2^(k % 15)
BigShrBy(a, w, qr) == <<qr[1], BigNorm(SubSeq(a, 1, w) \o <<qr[2]>>)>>
BigShrDef(a, k) ==
  IF Len(a) <= k \div 15 THEN <<<<>>, a>>
  ELSE BigShrBy(a, k \div 15,
                BigDivSmall(SubSeq(a, k \div 15 + 1, Len(a)), 2^(k % 15)))

\* x + y for signs that differ; c compares the magnitudes
ZAddMixed(x, y, c) ==
  IF c = 0 THEN Z0
  ELSE IF c > 0 THEN <<x[1], BigSub(x[2], y[2])>>
  ELSE <<y[1], BigSub(y[2], x[2])>>
ZAddDef(x, y) ==
  IF x[1] = 0 THEN y
  ELSE IF y[1] = 0 THEN x
  ELSE IF x[1] = y[1] THEN <<x[1], BigAdd(x[2], y[2])>>
  ELSE ZAddMixed(x, y, BigCmp(x[2], y[2]))

\* r is |x| mod y
ZModBy(x, y, r) ==
  IF x[1] >= 0 \/ r = <<>> THEN ZMake(1, r)
  ELSE ZMake(1, BigSub(y[2], r))
ZModDef(x, y) == ZModBy(x, y, BigMod(x[2], y[2]))

\* m is x mod 2^64
Wrap64By(m) ==
  IF BigCmp(m[2], BigPow2(63)) >= 0 THEN ZSub(m, <<1, BigPow2(64)>>)
  ELSE m
Wrap64Def(x) ==
  IF BigCmp(x[2], BigPow2(63)) < 0 THEN x
  ELSE Wrap64By(ZMod(x, <<1, BigPow2(64)>>))

\* the rounded mantissa q: one more bit than fits is a power of two
DblRoundTo(sign, q, e) ==
  IF BigBitLen(q) > MantBits
    THEN <<sign, BigPow2(MantBits - 1), e + 1>>
    ELSE <<sign, q, e>>
\* dm is <<n div 2^sh, n mod 2^sh>>; c compares the remainder with half
DblRoundHalf(sign, e, sticky, dm, c) ==
  IF c > 0 \/ (c = 0 /\ (sticky \/ BigIsOdd(dm[1])))
    THEN DblRoundTo(sign, BigAdd(dm[1], <<1>>), e)
    ELSE DblRoundTo(sign, dm[1], e)
DblRoundCut(sign, e, sticky, sh, dm) ==
  DblRoundHalf(sign, e + sh, sticky, dm, BigCmp(dm[2], BigPow2(sh - 1)))
\* bits is the number of binary digits of n
DblRoundBits(sign, n, e, sticky, bits) ==
  IF bits <= MantBits
    THEN <<sign, BigShl(n, MantBits - bits), e - (MantBits - bits)>>
    ELSE DblRoundCut(sign, e, sticky, bits - MantBits,
                     BigShr(n, bits - MantBits))
DblRoundDef(sign, n, e, sticky) ==
  DblRoundBits(sign, n, e, sticky, BigBitLen(n))

\* dm is <<quotient, remainder>> of num * 2^k by den
DblRatioBy(sign, e, dm) == DblRound(sign, dm[1], e, dm[2] # <<>>)
\* num is scaled by 2^k so that the quotient has more than 54 bits
DblRatioScaled(sign, num, den, e, k) ==
  DblRatioBy(sign, e - k, BigDivMod(BigShl(num, k), den))
DblRatioBits(sign, num, den, e, a) ==
  DblRatioScaled(sign, num, den, e, IF a > 0 THEN a ELSE 0)
DblRatioDef(sign, num, den, e) ==
  IF num = <<>> THEN D0
  ELSE DblRatioBits(sign, num, den, e,
                    MantBits + 4 + BigBitLen(den) - BigBitLen(num))

DblOfZDef(x) == IF x[1] = 0 THEN D0 ELSE DblRound(x[1], x[2], 0, FALSE)

DblMulDef(x, y) ==
  IF x[1] = 0 \/ y[1] = 0 THEN D0
  ELSE DblRound(x[1] * y[1], BigMul(x[2], y[2]), x[3] + y[3], FALSE)

DblDivDef(x, y) ==
  IF x[1] = 0 THEN D0
  ELSE DblRatio(x[1] * y[1], x[2], y[2], x[3] - y[3])

\* z is the exact sum in units of 2^e
DblOfSum(z, e) == IF z[1] = 0 THEN D0 ELSE DblRound(z[1], z[2], e, FALSE)
DblAddOrderedDef(x, y) ==
  IF x[3] - y[3] > MantBits + 7
    THEN \* y is below a quarter of x's last place: it only rounds
         IF x[1] = y[1]
           THEN x
           ELSE DblRound(x[1], BigSub(BigMulSmall(x[2], 4), <<1>>),
                         x[3] - 2, TRUE)
    ELSE DblOfSum(ZAdd(<<x[1], BigShl(x[2], x[3] - y[3])>>, <<y[1], y[2]>>),
                  y[3])

DblAddDef(x, y) ==
  IF x[1] = 0 THEN y
  ELSE IF y[1] = 0 THEN x
  ELSE IF x[3] >= y[3] THEN DblAddOrdered(x, y) ELSE DblAddOrdered(y, x)

DblTruncDef(x) ==
  IF x[1] = 0 THEN Z0
  ELSE IF x[3] >= 0 THEN <<x[1], BigShl(x[2], x[3])>>
  ELSE IF -x[3] >= MantBits THEN Z0
  ELSE ZMake(x[1], BigShr(x[2], -x[3])[1])

Num(op, v) ==
  CASE op = "BigQuotDigit" -> BigQuotDigitDef(v[1], v[2], v[3], v[4])
    [] op = "BigSub" -> BigNorm(BigSubC(v[1], v[2], 0))
    [] op = "BigAdd" -> BigAddC(v[1], v[2], 0)
    [] op = "BigDivStep" -> BigDivStepDef(v[1], v[2], v[3], v[4], v[5])
    [] op = "BigMul" -> BigMulDef(v[1], v[2])
    [] op = "ZAdd" -> ZAddDef(v[1], v[2])
    [] op = "Wrap64" -> Wrap64Def(v[1])
    [] op = "Add64" -> Wrap64(ZAdd(v[1], v[2]))
    [] op = "Sub64" -> Wrap64(ZSub(v[1], v[2]))
    [] op = "Mul64" -> Wrap64(ZMul(v[1], v[2]))
    [] op = "BigDivMod" -> BigDivModDef(v[1], v[2])
    [] op = "BigShl" -> BigShlDef(v[1], v[2])
    [] op = "BigShr" -> BigShrDef(v[1], v[2])
    [] op = "ZMod" -> ZModDef(v[1], v[2])
    [] op = "DblRound" -> DblRoundDef(v[1], v[2], v[3], v[4])
    [] op = "DblRatio" -> DblRatioDef(v[1], v[2], v[3], v[4])
    [] op = "DblOfZ" -> DblOfZDef(v[1])
    [] op = "DblMul" -> DblMulDef(v[1], v[2])
    [] op = "DblDiv" -> DblDivDef(v[1], v[2])
    [] op = "DblAddOrdered" -> DblAddOrderedDef(v[1], v[2])
    [] op = "DblAdd" -> DblAddDef(v[1], v[2])
    [] op = "DblTrunc" -> DblTruncDef(v[1])

VARIABLES
  ringKind,      \* which class: "RingBuffer.hpp" or "recorder.cpp"
  buffer,        \* RingBuffer::buffer
  head,          \* RingBuffer::head  (write index)
  tail,          \* RingBuffer::tail  (read index)
  ppc,           \* producer: position in its code
  p_item,        \* push: argument item
  current_head,  \* push: local current_head
  next_head,     \* push: local next_head
  p_ret,         \* push: last return value
  cpc,           \* consumer: position in its code
  current_tail,  \* pop: local current_tail
  out_item,      \* pop: the caller's out parameter
  c_ret,         \* pop: last return value
  pushed,        \* history: items of the pushes that returned true
  popped,        \* history: items of the pops that returned true
  pushCalls,     \* history: number of push calls made
  popCalls,      \* history: number of pop calls made
  pushFails,     \* history: number of push calls that returned false
  serial         \* history: no push call was made after a pop call, and
                 \*          no pop call while a push was running

ringVars == <<ringKind, buffer, head, tail, ppc, p_item, current_head,
              next_head, p_ret, cpc, current_tail, out_item, c_ret,
              pushed, popped, pushCalls, popCalls, pushFails, serial>>

VARIABLES
  MODE_HEADLESS,    \* recorder.cpp: --headless was given
  MODE_VISUAL,      \* recorder.cpp: --visual-only was given
  running,          \* recorder.cpp: std::atomic<bool> running
  linesRead,        \* history: input lines main has read
  fileOpen,         \* FileWriter::file.is_open()
  bufPos,           \* FileWriter::bufPos
  wbuf,             \* FileWriter::buffer[0 .. bufPos): the packets in it
  fileData,         \* the packets written to the log files, in order
  liquidationMap,   \* LiquidationEngine::liquidationMap
  ticker,           \* LiquidationEngine: currentOI, currentFunding,
                    \*   currentMarkPrice
  lastTradePrice    \* LiquidationEngine::lastTradePrice

recVars == <<MODE_HEADLESS, MODE_VISUAL, running, linesRead, fileOpen,
             bufPos, wbuf, fileData, liquidationMap, ticker,
             lastTradePrice>>

VARIABLES
  displayBook,        \* LiveEngine::displayBook: [bids, asks], each a
                      \*   sequence of levels [price, qty] (double)
  book,               \* MarketMakerStrategy::book (OrderBookL3): [bids, asks]
  signals,            \* MarketMakerStrategy::signals (SignalEngine): history,
                      \*   head, count, runningBuyVol, runningSellVol,
                      \*   currentLatency, isStale
  currentPosition,    \* MarketMakerStrategy::currentPosition
  orders,             \* LiveEngine::orders
  orderIdCounter,     \* LiveEngine::orderIdCounter
  position,           \* LiveEngine::position
  entryPrice,         \* LiveEngine::entryPrice
  balance,            \* LiveEngine::balance
  lastDashboardPrint, \* LiveEngine::lastDashboardPrint
  terminated,         \* an exception left LiveEngine::run (std::terminate)
  events,             \* history: number of events handled
  executed,           \* history: <<q>> when the last event made LiveEngine
                      \*   call executeQuotes(q), <<>> otherwise
  tradePrint,         \* history: <<P>> when the last event was a call
                      \*   checkFills(P, ts), <<>> otherwise
  journal,            \* history: the logTrade calls made so far, each
                      \*   [side, price, qty, pnl, reason]
  dbReady,            \* LiveEngine::dbReady
  db                  \* hft_live.db: the rows of its tables trades and
                      \*   trade_log

engVars == <<displayBook, book, signals, currentPosition, orders,
             orderIdCounter, position, entryPrice, balance,
             lastDashboardPrint, terminated, events, executed,
             tradePrint, journal, dbReady, db>>

\* everything but the ring and the two threads' positions in it
nonRingVars == <<recVars, engVars>>

vars == <<ringVars, recVars, engVars>>

(***************************************************************************)
(* The two ring classes differ only in the number of slots they allocate   *)
(* for template argument n.                                                *)
(***************************************************************************)
\* RingBuffer.hpp:15  buffer(Capacity + 1);  recorder.cpp:22  array<T, Size>
BufferSize(kind, n) == IF kind = "RingBuffer.hpp" THEN n + 1 ELSE n

N == BufferSize(ringKind, RingParam)

\* an index advanced without the wrap
NextIndexNoWrap(i, n) == i + 1

\* (i + 1) % buffer.size()
NextIndex(i, n) == (i + 1) % n


(***************************************************************************)
(* RingBuffer::push, one atomic access or slot access per step.            *)
(***************************************************************************)
\* size_t current_head = head.load(relaxed); next_head = (current_head+1) % n
PushLoadHead ==
  /\ ppc = "push_load_head"
  /\ current_head' = head
  /\ next_head' = NextIndex(head, N)
  /\ ppc' = "push_load_tail"
  /\ UNCHANGED <<ringKind, buffer, head, tail, p_item, p_ret, cpc,
                 current_tail, out_item, c_ret, pushed, popped, pushCalls,
                 popCalls, pushFails, serial>>
  /\ UNCHANGED nonRingVars

\* a push without the full test: it overwrites the oldest slot
PushIsFullUnchecked(nextHead, tailSeen) == FALSE

\* whether push takes its "return false; // Full" branch
PushIsFull(nextHead, tailSeen) == nextHead = tailSeen

\* if (next_head == tail.load(acquire)) return false;
PushLoadTail ==
  /\ ppc = "push_load_tail"
  /\ IF PushIsFull(next_head, tail)
       THEN /\ p_ret' = FALSE
            /\ pushFails' = pushFails + 1
            /\ ppc' = "push_ret"
       ELSE /\ ppc' = "push_write"
            /\ UNCHANGED <<p_ret, pushFails>>
  /\ UNCHANGED <<ringKind, buffer, head, tail, p_item, current_head,
                 next_head, cpc, current_tail, out_item, c_ret, pushed,
                 popped, pushCalls, popCalls, serial>>
  /\ UNCHANGED nonRingVars

\* buffer[current_head] = item;
PushWrite ==
  /\ ppc = "push_write"
  /\ buffer' = [buffer EXCEPT ![current_head] = p_item]
  /\ ppc' = "push_store"
  /\ UNCHANGED <<ringKind, head, tail, p_item, current_head, next_head,
                 p_ret, cpc, current_tail, out_item, c_ret, pushed, popped,
                 pushCalls, popCalls, pushFails, serial>>
  /\ UNCHANGED nonRingVars

\* the index push publishes
PushPublished(curHead, nextHead) == nextHead

\* head.store(next_head, release); return true;
PushStoreHead ==
  /\ ppc = "push_store"
  /\ head' = PushPublished(current_head, next_head)
  /\ p_ret' = TRUE
  /\ pushed' = Append(pushed, p_item)
  /\ ppc' = "push_ret"
  /\ UNCHANGED <<ringKind, buffer, tail, p_item, current_head, next_head,
                 cpc, current_tail, out_item, c_ret, popped, pushCalls,
                 popCalls, pushFails, serial>>
  /\ UNCHANGED nonRingVars

(***************************************************************************)
(* RingBuffer::pop, one atomic access or slot access per step.             *)
(***************************************************************************)
\* size_t current_tail = tail.load(relaxed);
PopLoadTail ==
  /\ cpc = "pop_load_tail"
  /\ current_tail' = tail
  /\ cpc' = "pop_load_head"
  /\ UNCHANGED <<ringKind, buffer, head, tail, ppc, p_item, current_head,
                 next_head, p_ret, out_item, c_ret, pushed, popped,
                 pushCalls, popCalls, pushFails, serial>>
  /\ UNCHANGED nonRingVars

\* a faulty empty test, one slot off: it does not see an empty ring
PopIsEmptyOffByOne(curTail, headSeen) == NextIndex(curTail, N) = headSeen

\* whether pop takes its "return false; // Empty" branch
PopIsEmpty(curTail, headSeen) == curTail = headSeen

\* if (current_tail == head.load(acquire)) return false;
PopLoadHead ==
  /\ cpc = "pop_load_head"
  /\ IF PopIsEmpty(current_tail, head)
       THEN /\ c_ret' = FALSE
            /\ cpc' = "pop_ret"
       ELSE /\ cpc' = "pop_read"
            /\ UNCHANGED c_ret
  /\ UNCHANGED <<ringKind, buffer, head, tail, ppc, p_item, current_head,
                 next_head, p_ret, current_tail, out_item, pushed, popped,
                 pushCalls, popCalls, pushFails, serial>>
  /\ UNCHANGED nonRingVars

\* out_item = buffer[current_tail];
PopRead ==
  /\ cpc = "pop_read"
  /\ cpc' = "pop_store"
  /\ out_item' = buffer[current_tail]
  /\ UNCHANGED <<ringKind, buffer, head, tail, ppc, p_item, current_head,
                 next_head, p_ret, current_tail, c_ret, pushed, popped,
                 pushCalls, popCalls, pushFails, serial>>
  /\ UNCHANGED nonRingVars

\* tail.store((current_tail + 1) % n, release); return true;
PopStoreTail ==
  /\ cpc = "pop_store"
  /\ tail' = NextIndex(current_tail, N)
  /\ c_ret' = TRUE
  /\ popped' = Append(popped, out_item)
  /\ cpc' = "pop_ret"
  /\ UNCHANGED <<ringKind, buffer, head, ppc, p_item, current_head,
                 next_head, p_ret, current_tail, out_item, pushed, pushCalls,
                 popCalls, pushFails, serial>>
  /\ UNCHANGED nonRingVars

(***************************************************************************)
(* protocol.h: message types and payloads; recorder.cpp: line parsing.     *)
(***************************************************************************)
TYPE_TRADE == 1
TYPE_DEPTH_SNAPSHOT == 3
TYPE_LIQ == 4
TYPE_TICKER == 5
ID_WLDUSDT == 0
\* SnapshotPayload: bid_px[50], bid_qty[50], ask_px[50], ask_qty[50]
SNAPSHOT_LEVELS == 50
\* RING_BUFFER_SIZE is 65536 * 4 in the source; the model instantiates the
\* recorder's ring with RingParam slots instead.
WRITE_BUFFER_SIZE == 1024 * 1024

\* sizeof of the packed payload structs
SizeofPayload(type) ==
  IF type = TYPE_TRADE THEN 8 + 8 + 8 + 1
  ELSE IF type = TYPE_DEPTH_SNAPSHOT THEN 8 + 4 * (8 * SNAPSHOT_LEVELS)
  ELSE IF type = TYPE_LIQ THEN 8 + 8 + 8 + 1
  ELSE IF type = TYPE_TICKER THEN 8 + 8 + 8 + 8
  ELSE 0

\* A line is the sequence of its '|'-separated fields.  A field is a word
\* <<"w", text>>, a number (Dec), or a list <<"l", tokens>> of the
\* ','-separated tokens of a depth side, each token <<price, qty>> (the
\* texts around its ':') or NoColon.
W(text) == <<"w", text>>
NoColon == <<"no colon">>
DepthList(tokens) == <<"l", tokens>>
IsWord(f, text) == f = <<"w", text>>
\* a number too large for Dec's argument: n * 10^k + m, no fraction digits
DecLong(n, k, m) == <<1, ZAdd(ZE(n, k), ZOf(m))[2], 0>>

\* int64_t toFixedE8(const std::string &): 0 when std::stod throws
toFixedE8(val_str) ==
  IF IsNumber(val_str)
    THEN DblTrunc(DblMul(Stod(val_str), DblOfInt(100000000)))
    ELSE Z0

\* std::stoll: the integer digits of the text; throws when there are none
StollThrows(f) == ~IsNumber(f)
Stoll(f) == DecScaled(f, 0)

\* first character of a side word: parts[3][0]
FirstChar(f) ==
  IF f = W("Buy") THEN "B" ELSE IF f = W("Sell") THEN "S"
  ELSE IF f = W("BUY") THEN "B" ELSE IF f = W("SELL") THEN "S" ELSE "?"

\* the tokens std::getline(ss2, p, ',') yields for a field
ListTokens(f) == IF f[1] = "l" THEN f[2] ELSE <<NoColon>>

\* parseStr: entry i of px[] and qty[] for token i; a token without ':'
\* leaves both entries as they were (junk: the array is uninitialised);
\* tokens beyond the 50th are not read, entries beyond the last token are 0
parseStr(f, junk) ==
  LET toks == ListTokens(f)
      n    == IF Len(toks) < SNAPSHOT_LEVELS THEN Len(toks)
              ELSE SNAPSHOT_LEVELS
  IN  [i \in 1 .. n |->
         IF toks[i] = NoColon THEN <<junk, junk>>
         ELSE <<toFixedE8(toks[i][1]), toFixedE8(toks[i][2])>>]

\* body of main's while loop up to the push: <<TRUE, msg>> when the line
\* makes main call ringBuffer.push(msg), <<FALSE, NoItem>> when it does not
\* (empty line, unknown type, too few fields, or an exception caught by
\* catch (...))
ParseInputLine(parts, visual, junk) ==
  IF parts = <<>> THEN <<FALSE, NoItem>>
  ELSE IF IsWord(parts[1], "TRADE") /\ Len(parts) >= 6 THEN
    IF StollThrows(parts[2]) THEN <<FALSE, NoItem>>
    ELSE <<TRUE, [type |-> TYPE_TRADE, symbol_id |-> ID_WLDUSDT,
                  timestamp |-> Stoll(parts[2]),
                  price |-> toFixedE8(parts[5]),
                  qty |-> toFixedE8(parts[6]),
                  is_buyer_maker |-> IsWord(parts[4], "SELL")]>>
  ELSE IF IsWord(parts[1], "DEPTH") /\ Len(parts) >= 5 THEN
    IF visual \/ StollThrows(parts[2]) THEN <<FALSE, NoItem>>
    ELSE <<TRUE, [type |-> TYPE_DEPTH_SNAPSHOT, symbol_id |-> ID_WLDUSDT,
                  timestamp |-> Stoll(parts[2]),
                  bids |-> parseStr(parts[4], junk),
                  asks |-> parseStr(parts[5], junk)]>>
  ELSE IF IsWord(parts[1], "LIQ") /\ Len(parts) >= 6 THEN
    IF StollThrows(parts[2]) THEN <<FALSE, NoItem>>
    ELSE <<TRUE, [type |-> TYPE_LIQ, symbol_id |-> ID_WLDUSDT,
                  timestamp |-> Stoll(parts[2]),
                  price |-> toFixedE8(parts[5]),
                  qty |-> toFixedE8(parts[6]),
                  side |-> FirstChar(parts[4])]>>
  ELSE IF IsWord(parts[1], "TICKER") /\ Len(parts) >= 6 THEN
    IF StollThrows(parts[2]) THEN <<FALSE, NoItem>>
    ELSE <<TRUE, [type |-> TYPE_TICKER, symbol_id |-> ID_WLDUSDT,
                  timestamp |-> Stoll(parts[2]),
                  open_interest |-> toFixedE8(parts[4]),
                  funding_rate |-> toFixedE8(parts[5]),
                  mark_price |-> toFixedE8(parts[6])]>>
  ELSE <<FALSE, NoItem>>

(***************************************************************************)
(* LiquidationEngine.hpp                                                   *)
(***************************************************************************)
BUCKET_STEP == 100000
\* static constexpr double INV_LIQ_FACTOR = 0.04
INV_LIQ_FACTOR == DblLit(4, 2)

\* int64_t roundToBucket(int64_t pxE8)
roundToBucket(pxE8) == ZMul(ZDivT(pxE8, ZOf(BUCKET_STEP)), ZOf(BUCKET_STEP))

\* static_cast<int64_t>(x * 100000000LL)
DblToE8(x) == DblTrunc(DblMul(x, DblOfInt(100000000)))

\* liquidationMap[bucket] += amount
MapAdd(map, bucket, amount) ==
  IF bucket \in DOMAIN map
    THEN [map EXCEPT ![bucket] = Add64(@, amount)]
    ELSE [b \in DOMAIN map \cup {bucket} |->
            IF b = bucket THEN amount ELSE map[b]]

\* the bucket onTrade adds to
TradeBucket(price, isBuyerMaker) ==
  LET estLiqPrice ==
        IF isBuyerMaker
          THEN DblMul(price, DblAdd(DblOfInt(1), INV_LIQ_FACTOR))
          ELSE DblMul(price, DblSub(DblOfInt(1), INV_LIQ_FACTOR))
  IN  roundToBucket(DblToE8(estLiqPrice))

\* void onTrade(double price, double qty, bool isBuyerMaker): the new map
onTrade(map, price, qty, isBuyerMaker) ==
  MapAdd(map, TradeBucket(price, isBuyerMaker), DblToE8(qty))

\* void onLiquidation(double price, double qty, char side): the new map
onLiquidation(map, price, qty, side) ==
  MapAdd(map, roundToBucket(DblToE8(price)),
         Mul64(DblToE8(qty), ZOf(10)))

\* (double)x / 100000000.0
E8ToDbl(x) == DblDiv(DblOfZ(x), DblOfInt(100000000))

(***************************************************************************)
(* recorder.cpp: FileWriter.  A writer is [open, bufPos, wbuf, fileData].  *)
(***************************************************************************)
\* void flush(bool force)
WriterFlush(w) ==
  IF w.bufPos > 0 /\ w.open
    THEN [w EXCEPT !.fileData = w.fileData \o w.wbuf,
                   !.wbuf = <<>>, !.bufPos = 0]
    ELSE w

\* void rotate(): the open of the new file succeeds or not
WriterRotate(w, openOk) ==
  LET closed == IF w.open THEN [WriterFlush(w) EXCEPT !.open = FALSE] ELSE w
  IN  [closed EXCEPT !.open = openOk]

\* void checkRotation(): sixtyMin says 60 minutes have passed
WriterCheckRotation(w, sixtyMin, openOk) ==
  IF sixtyMin \/ ~w.open THEN WriterRotate(w, openOk) ELSE w

\* void write(const char *data, size_t len)
WriterWrite(w, packet, len) ==
  IF ~w.open THEN w
  ELSE LET f == IF w.bufPos + len > WRITE_BUFFER_SIZE
                  THEN WriterFlush(w) ELSE w
       IN  [f EXCEPT !.wbuf = Append(f.wbuf, packet),
                     !.bufPos = f.bufPos + len]

Writer == [open |-> fileOpen, bufPos |-> bufPos, wbuf |-> wbuf,
           fileData |-> fileData]
SetWriter(w) ==
  /\ fileOpen' = w.open
  /\ bufPos' = w.bufPos
  /\ wbuf' = w.wbuf
  /\ fileData' = w.fileData

\* the globals of recorder.cpp as they are constructed
RecorderIdle ==
  /\ MODE_HEADLESS = FALSE /\ MODE_VISUAL = FALSE
  /\ running = TRUE
  /\ linesRead = 0
  /\ fileOpen = FALSE /\ bufPos = 0 /\ wbuf = <<>> /\ fileData = <<>>
  /\ liquidationMap = <<>>
  /\ ticker = <<Z0, Z0, Z0>>
  /\ lastTradePrice = D0

(***************************************************************************)
(* OrderBookL3.hpp.  A book is [bids, asks]; each is the sequence of the   *)
(* updates pushed to it, kept as what the accessors read of an update:     *)
(* [price, size] (int64_t, E8).  A MarketUpdate is [timestamp_exchange,    *)
(* timestamp_local, price, size, side, type].  int64_t arithmetic wraps.   *)
(* A value that a function names once and reads several times (a local     *)
(* variable) is the parameter of an operator of its own below.             *)
(***************************************************************************)
PRICE_SCALE == 100000000
INT64_MAX == <<1, BigSub(BigPow2(63), <<1>>)>>

EmptyBook == [bids |-> <<>>, asks |-> <<>>]

\* static int64_t toFixed(double val)
toFixed(val) == DblTrunc(DblMul(val, DblOfInt(PRICE_SCALE)))

\* static double toDouble(int64_t val)
toDouble(val) == DblDiv(DblOfZ(val), DblOfInt(PRICE_SCALE))

\* void addOrder(const MarketUpdate &update): the new book
addOrder(bk, update) ==
  IF update.side = "B"
    THEN [bk EXCEPT !.bids = Append(bk.bids, [price |-> update.price,
                                              size |-> update.size])]
    ELSE [bk EXCEPT !.asks = Append(bk.asks, [price |-> update.price,
                                              size |-> update.size])]

\* getMicroPrice from "if (bidVol + askVol == 0)" on; den is that sum
MicroPriceOver(bestBidPx, bestAskPx, bidVol, askVol, den) ==
  IF den = Z0
    THEN ZDivT(Add64(bestBidPx, bestAskPx), ZOf(2))
    ELSE Wrap64(ZDivT(U128(ZAdd(U128(ZMul(bestBidPx, askVol)),
                                U128(ZMul(bestAskPx, bidVol)))),
                      U128(den)))

\* int64_t getMicroPrice() const
getMicroPrice(bk) ==
  IF bk.bids = <<>> \/ bk.asks = <<>> THEN Z0
  ELSE MicroPriceOver(bk.bids[1].price, bk.asks[1].price,
                      bk.bids[1].size, bk.asks[1].size,
                      Add64(bk.bids[1].size, bk.asks[1].size))

\* for (i = 0; i < d; ++i) vol += levels[i].size, from vol = acc
RECURSIVE SumSizes(_, _, _, _)
SumSizes(levels, i, d, acc) ==
  IF i > d THEN acc
  ELSE SumSizes(levels, i + 1, d, Add64(acc, levels[i].size))

\* std::min((size_t)5, levels.size())
Depth5(levels) == IF Len(levels) < 5 THEN Len(levels) ELSE 5

\* return (diff < 0) ? -result : result
ImbalanceSigned(diff, result) ==
  IF ZLt(diff, Z0) THEN Wrap64(ZNeg(result)) ELSE result

\* getImbalance from "if (total == 0)" on
ImbalanceOf(total, diff) ==
  IF total = Z0 THEN Z0
  ELSE ImbalanceSigned(
         diff,
         Wrap64(ZDivT(U128(ZMul(U128(Abs64(diff)), ZOf(PRICE_SCALE))),
                      U128(total))))

\* getImbalance from "int64_t total = bidVol + askVol" on
ImbalanceOver(bidVol, askVol) ==
  ImbalanceOf(Add64(bidVol, askVol), Sub64(bidVol, askVol))

\* int64_t getImbalance() const
getImbalance(bk) ==
  IF bk.bids = <<>> \/ bk.asks = <<>> THEN Z0
  ELSE ImbalanceOver(SumSizes(bk.bids, 1, Depth5(bk.bids), Z0),
                     SumSizes(bk.asks, 1, Depth5(bk.asks), Z0))

(***************************************************************************)
(* SignalEngine.hpp.  A signal engine is [history, head, count,            *)
(* runningBuyVol, runningSellVol, currentLatency, isStale]; history maps   *)
(* the indices written so far to their TradeRecord [price, size, side,     *)
(* timestamp].                                                             *)
(***************************************************************************)
WINDOW_SIZE == 1000
MAX_LATENCY_NS == 500000000
VACUUM_THRESHOLD == 50000000
WALL_THRESHOLD == 500000000

\* SignalEngine() = default
NewSignals == [history |-> <<>>, head |-> 0, count |-> 0,
               runningBuyVol |-> Z0, runningSellVol |-> Z0,
               currentLatency |-> Z0, isStale |-> FALSE]

\* history[h] = rec
HistoryPut(history, h, rec) ==
  [i \in DOMAIN history \cup {h} |-> IF i = h THEN rec ELSE history[i]]

\* the staleness test of addEvent: currentLatency > MAX_LATENCY_NS
LatencyIsStale(latency) == ZGt(latency, ZOf(MAX_LATENCY_NS))

\* a latency guard that only ever raises the flag
LatencySetSticky(sg, latency) ==
  [sg EXCEPT !.currentLatency = latency,
             !.isStale = @ \/ LatencyIsStale(latency)]

\* currentLatency = ...; isStale = ...
LatencySet(sg, latency) ==
  [sg EXCEPT !.currentLatency = latency, !.isStale = LatencyIsStale(latency)]

\* an eviction that takes every record off the buy total
TailEvictedAsBuy(sg) ==
  IF sg.count = WINDOW_SIZE
    THEN [sg EXCEPT !.runningBuyVol = Sub64(@, sg.history[sg.head].size)]
    ELSE [sg EXCEPT !.count = @ + 1]

\* if (count == WINDOW_SIZE) { the oldest record tl leaves the totals }
\* else count++
TailEvicted(sg) ==
  IF sg.count = WINDOW_SIZE
    THEN IF sg.history[sg.head].side = "B"
           THEN [sg EXCEPT !.runningBuyVol =
                             Sub64(@, sg.history[sg.head].size)]
           ELSE [sg EXCEPT !.runningSellVol =
                             Sub64(@, sg.history[sg.head].size)]
    ELSE [sg EXCEPT !.count = @ + 1]

\* history[head] = rec; the totals take rec in; head = (head + 1) % WINDOW_SIZE
RecordAdded(sg, rec) ==
  IF rec.side = "B"
    THEN [sg EXCEPT !.history = HistoryPut(@, sg.head, rec),
                    !.runningBuyVol = Add64(@, rec.size),
                    !.head = (@ + 1) % WINDOW_SIZE]
    ELSE [sg EXCEPT !.history = HistoryPut(@, sg.head, rec),
                    !.runningSellVol = Add64(@, rec.size),
                    !.head = (@ + 1) % WINDOW_SIZE]

\* addEvent from "if (mu.type != 'T') return" on
EventRecorded(sg, mu) ==
  IF mu.type # "T" THEN sg
  ELSE RecordAdded(TailEvicted(sg),
                   [price |-> mu.price, size |-> mu.size, side |-> mu.side,
                    timestamp |-> mu.timestamp_exchange])

\* void addEvent(const MarketUpdate &mu): the new signal engine
addEvent(sg, mu) ==
  EventRecorded(
    LatencySet(sg, Sub64(mu.timestamp_local, mu.timestamp_exchange)), mu)

\* bool isSignalStale() const
isSignalStale(sg) == sg.isStale

\* getTradeVelocity from "if (durationNs <= 0)" on
VelocityOver(count, durationNs) ==
  IF ZLe(durationNs, Z0) THEN D0
  ELSE DblDiv(DblOfInt(count),
              DblDiv(DblOfZ(durationNs), DblOfInt(1000000000)))

\* a velocity that takes slot 0 for the oldest record
getTradeVelocityFromSlot0(sg) ==
  IF sg.count < 2 THEN D0
  ELSE VelocityOver(
         sg.count,
         Sub64(sg.history[(sg.head + WINDOW_SIZE - 1) % WINDOW_SIZE].timestamp,
               sg.history[0].timestamp))

\* double getTradeVelocity() const
getTradeVelocity(sg) ==
  IF sg.count < 2 THEN D0
  ELSE VelocityOver(
         sg.count,
         Sub64(sg.history[(sg.head + WINDOW_SIZE - 1) % WINDOW_SIZE].timestamp,
               sg.history[(sg.head + WINDOW_SIZE - sg.count)
                          % WINDOW_SIZE].timestamp))

\* checkIntegrity from "if (bidLiq5 < VACUUM_THRESHOLD || ...)" on
IntegrityOf(bk, bidLiq5, askLiq5) ==
  IF ZLt(bidLiq5, ZOf(VACUUM_THRESHOLD))
     \/ ZLt(askLiq5, ZOf(VACUUM_THRESHOLD))
    THEN "VACUUM_DETECTED"
  ELSE IF (bk.bids # <<>> /\ ZGt(bk.bids[1].size, ZOf(WALL_THRESHOLD)))
          \/ (bk.asks # <<>> /\ ZGt(bk.asks[1].size, ZOf(WALL_THRESHOLD)))
    THEN "ABSORPTION_DETECTED"
  ELSE "NORMAL"

\* State checkIntegrity(const OrderBookL3 &book) const
checkIntegrity(sg, bk) ==
  IF sg.isStale THEN "NORMAL"
  ELSE IntegrityOf(bk, SumSizes(bk.bids, 1, Depth5(bk.bids), Z0),
                       SumSizes(bk.asks, 1, Depth5(bk.asks), Z0))

\* getVPIN from "if (total == 0)" on
VPINOf(total, diff) ==
  IF total = Z0 THEN Z0
  ELSE Mul64(Wrap64(ZDivT(Mul64(Abs64(diff), ZOf(PRICE_SCALE)), total)),
             IF ZLt(diff, Z0) THEN ZOf(-1) ELSE ZOf(1))

\* int64_t getVPIN() const
getVPIN(sg) ==
  VPINOf(Add64(sg.runningBuyVol, sg.runningSellVol),
         Sub64(sg.runningBuyVol, sg.runningSellVol))

\* iterations lo .. hi - 1 of the loop of getTrapSignal, in order, from
\* mm = <<maxPx, minPx>>: px = history[(head + WINDOW_SIZE - 1 - i) %
\* WINDOW_SIZE].price; if (px > maxPx) maxPx = px; if (px < minPx) minPx = px
RECURSIVE TrapLoop(_, _, _, _)
TrapLoop(sg, lo, hi, mm) ==
  IF lo >= hi THEN mm
  ELSE IF hi = lo + 1
    THEN LET px == sg.history[(sg.head + WINDOW_SIZE - 1 - lo)
                              % WINDOW_SIZE].price
         IN  <<IF ZGt(px, mm[1]) THEN px ELSE mm[1],
               IF ZLt(px, mm[2]) THEN px ELSE mm[2]>>
  ELSE CHOOSE after \in
         {TrapLoop(sg, (lo + hi) \div 2, hi, half) :
            half \in {TrapLoop(sg, lo, (lo + hi) \div 2, mm)}} : TRUE

\* the loop of getTrapSignal over the window, newest record first, from
\* iteration i on: <<maxPx, minPx>>
TrapScan(sg, i, maxPx, minPx) == TrapLoop(sg, i, sg.count, <<maxPx, minPx>>)

\* getTrapSignal from "int64_t vpin = getVPIN()" on; mm is <<maxPx, minPx>>
TrapOf(lastPx, mm, vpin) ==
  IF ZGt(vpin, ZOf(30000000)) /\ ZLt(lastPx, Sub64(mm[1], ZOf(50000)))
    THEN 1
  ELSE IF ZLt(vpin, ZOf(-30000000))
          /\ ZGt(lastPx, Add64(mm[2], ZOf(50000)))
    THEN -1
  ELSE 0

\* int getTrapSignal() const
getTrapSignal(sg) ==
  IF sg.count < 50 THEN 0
  ELSE TrapOf(sg.history[(sg.head + WINDOW_SIZE - 1) % WINDOW_SIZE].price,
              TrapScan(sg, 0, Z0, INT64_MAX), getVPIN(sg))

(***************************************************************************)
(* MarketMakerStrategy.hpp.  Quotes is [bidPx, askPx, bidActive,           *)
(* askActive, reason, isTaker, takerSide, takerQty].                       *)
(***************************************************************************)
TICK_SIZE == 10000
HALF_SPREAD == 20000
RISK_AVERSION == 100
TAKER_FEE == 55000
\* static constexpr double VELOCITY_THRESHOLD = 5.0
VELOCITY_THRESHOLD == DblOfInt(5)

\* Quotes q{0, 0, false, false, "WAIT", false, 0, 0}
WaitQuotes == [bidPx |-> Z0, askPx |-> Z0, bidActive |-> FALSE,
               askActive |-> FALSE, reason |-> "WAIT", isTaker |-> FALSE,
               takerSide |-> "NUL", takerQty |-> Z0]

\* the regime decided without looking at the trade velocity
RegimeIgnoringVelocity(velocity, integrity, trap) ==
  IF integrity = "VACUUM_DETECTED" THEN "ROCKET_SURFER"
  ELSE IF integrity = "ABSORPTION_DETECTED" \/ trap # 0 THEN "WICK_CATCHER"
  ELSE "RANGE"

\* the regime getQuotes decides on
Regime(velocity, integrity, trap) ==
  IF DblGt(velocity, VELOCITY_THRESHOLD)
    THEN IF integrity = "VACUUM_DETECTED" THEN "ROCKET_SURFER"
         ELSE IF integrity = "ABSORPTION_DETECTED" \/ trap # 0
           THEN "WICK_CATCHER"
         ELSE "RANGE"
    ELSE "RANGE"

\* q with both sides active, reason RANGE_MM
RangeMM(bidPx, askPx) ==
  [WaitQuotes EXCEPT !.bidPx = bidPx, !.askPx = askPx, !.bidActive = TRUE,
                     !.askActive = TRUE, !.reason = "RANGE_MM"]

\* q.bidPx = mid - HALF_SPREAD; q.askPx = mid + HALF_SPREAD
RangeAround(mid) ==
  RangeMM(Sub64(mid, ZOf(HALF_SPREAD)), Add64(mid, ZOf(HALF_SPREAD)))

\* the quotes without the sanity cross check
RangeUnchecked(bidPx, askPx) == RangeMM(bidPx, askPx)

\* the sanity cross check: if (q.bidPx >= q.askPx) { ... }
RangeChecked(bidPx, askPx) ==
  IF ZGe(bidPx, askPx)
    THEN RangeAround(ZDivT(Add64(bidPx, askPx), ZOf(2)))
    ELSE RangeMM(bidPx, askPx)

\* skew is currentPosition * RISK_AVERSION
RangeSkewed(micro, skew) ==
  RangeChecked(Sub64(Sub64(micro, ZOf(HALF_SPREAD)), skew),
               Sub64(Add64(micro, ZOf(HALF_SPREAD)), skew))

\* the DEFAULT: RANGE part of getQuotes
RangeQuotes(micro, pos) == RangeSkewed(micro, Mul64(pos, ZOf(RISK_AVERSION)))

\* the EXECUTION part always taking its default branch
QuotesInRangeOnly(micro, regime, trap, imbalance, pos) ==
  RangeQuotes(micro, pos)

\* the EXECUTION part of getQuotes: feeThreshold is TAKER_FEE * 3 and
\* expectedMove is 200000
QuotesIn(micro, regime, trap, imbalance, pos) ==
  IF regime = "ROCKET_SURFER" /\ ZGt(imbalance, ZOf(30000000))
     /\ 200000 > TAKER_FEE * 3
    THEN [WaitQuotes EXCEPT !.isTaker = TRUE, !.takerSide = "B",
                            !.takerQty = ZOf(100000000),
                            !.reason = "ROCKET_SURFER_BUY"]
  ELSE IF regime = "ROCKET_SURFER" /\ ~ZGt(imbalance, ZOf(30000000))
          /\ ZLt(imbalance, ZOf(-30000000))
          /\ 200000 > TAKER_FEE * 3
    THEN [WaitQuotes EXCEPT !.isTaker = TRUE, !.takerSide = "S",
                            !.takerQty = ZOf(100000000),
                            !.reason = "ROCKET_SURFER_SELL"]
  ELSE IF regime = "WICK_CATCHER" /\ trap = 1
    THEN [WaitQuotes EXCEPT !.askPx = Add64(micro, ZOf(HALF_SPREAD)),
                            !.askActive = TRUE, !.bidActive = FALSE,
                            !.reason = "WICK_CATCHER_SHORT"]
  ELSE IF regime = "WICK_CATCHER" /\ trap = -1
    THEN [WaitQuotes EXCEPT !.bidPx = Sub64(micro, ZOf(HALF_SPREAD)),
                            !.bidActive = TRUE, !.askActive = FALSE,
                            !.reason = "WICK_CATCHER_LONG"]
  ELSE RangeQuotes(micro, pos)

\* getQuotes from "if (micro == 0) return q" on
QuotesOn(bk, sg, pos, micro, trap) ==
  IF micro = Z0 THEN WaitQuotes
  ELSE QuotesIn(micro,
                Regime(getTradeVelocity(sg), checkIntegrity(sg, bk), trap),
                trap, getImbalance(bk), pos)

\* getQuotes from "int64_t micro = book.getMicroPrice()" on: what it
\* returns when the latency guard has let the call pass
QuotesPastGuard(bk, sg, pos) ==
  QuotesOn(bk, sg, pos, getMicroPrice(bk), getTrapSignal(sg))

\* getQuotes made to depend on how many calls came before
getQuotesCounting(bk, sg, pos) ==
  [QuotesPastGuard(bk, sg, pos) EXCEPT !.takerQty = ZOf(events)]

\* getQuotes without its first statement (the latency guard)
getQuotesUnguarded(bk, sg, pos) == QuotesPastGuard(bk, sg, pos)

\* Quotes getQuotes() const, of a strategy with this book, signal engine
\* and currentPosition
getQuotes(bk, sg, pos) ==
  IF isSignalStale(sg)
    THEN [WaitQuotes EXCEPT !.reason = "SAFETY_LATENCY_GUARD"]
    ELSE QuotesPastGuard(bk, sg, pos)

\* void update(const MarketUpdate &mu): <<book, signals>> after it
StrategyUpdate(bk, sg, mu) == <<addOrder(bk, mu), addEvent(sg, mu)>>

(***************************************************************************)
(* LiveEngine.hpp.  A LiveOrder is [id, side, price, quantity, active,     *)
(* isExit, timestamp, reason]; an account is [position, entryPrice,        *)
(* balance] (double).                                                      *)
(***************************************************************************)
\* double minOrderValue = 25.0
minOrderValue == DblOfInt(25)
\* LiveEngine() : initialBalance(1000.0), balance(1000.0)
initialBalance == DblOfInt(1000)

\* the levels onDepth's parse lambda pushes for one side string: a pair
\* without ':' is skipped
RECURSIVE ParseLevels(_)
ParseLevels(toks) ==
  IF toks = <<>> THEN <<>>
  ELSE IF Head(toks) = NoColon THEN ParseLevels(Tail(toks))
  ELSE <<[price |-> Stod(Head(toks)[1]), qty |-> Stod(Head(toks)[2])]>>
       \o ParseLevels(Tail(toks))

\* whether std::stod throws inside the parse lambda for this side string
ParseThrows(f) ==
  \E i \in 1 .. Len(ListTokens(f)) :
    /\ ListTokens(f)[i] # NoColon
    /\ ~(IsNumber(ListTokens(f)[i][1]) /\ IsNumber(ListTokens(f)[i][2]))

\* void onDepth(bidsStr, asksStr): the new displayBook
onDepth(bidsStr, asksStr) ==
  [bids |-> ParseLevels(ListTokens(bidsStr)),
   asks |-> ParseLevels(ListTokens(asksStr))]

\* the loop of updateStrategy over one side of displayBook
RECURSIVE AddLevels(_, _, _)
AddLevels(bk, levels, side) ==
  IF levels = <<>> THEN bk
  ELSE AddLevels(addOrder(bk, [side |-> side,
                               price |-> toFixed(Head(levels).price),
                               size |-> toFixed(Head(levels).qty)]),
                 Tail(levels), side)

\* the book updateStrategy rebuilds: book.clear(), then every level of
\* displayBook
RebuiltBook(dbook) ==
  AddLevels(AddLevels(EmptyBook, dbook.bids, "B"), dbook.asks, "A")

\* void placeOrder(side, price, qty, isExit, reason): <<orders,
\* orderIdCounter>> after it; now is std::time(nullptr)
placeOrder(ords, ctr, side, price, qty, isExit, reason, now) ==
  <<Append(ords, [id |-> ctr + 1, side |-> side, price |-> price,
                  quantity |-> qty, active |-> TRUE, isExit |-> isExit,
                  timestamp |-> ZMul(ZOf(now), ZOf(1000)),
                  reason |-> reason]),
    ctr + 1>>

\* whether the bid/ask management loop of executeQuotes looks at order o
Managed(o, side) == o.active /\ o.side = side /\ ~o.isExit

\* std::abs(o.price - targetPx) > 1e-5; tolerance is the double 1e-5
OffTarget(o, targetPx, tolerance) ==
  DblGt(DblAbs(DblSub(o.price, targetPx)), tolerance)

\* the orders after the loop of a management block: kept has, for each
\* order, whether the loop found it on target (bidExists = true)
AfterLoop(ords, side, kept) ==
  [i \in 1 .. Len(ords) |->
     IF Managed(ords[i], side) /\ ~kept[i]
       THEN [ords[i] EXCEPT !.active = FALSE]
       ELSE ords[i]]

\* a management block that places an order whenever its side is quoted
ManagePlaceAlways(ords, ctr, side, sideActive, targetPx, reason, now, kept) ==
  IF sideActive /\ DblGt(targetPx, D0)
    THEN placeOrder(AfterLoop(ords, side, kept), ctr, side, targetPx,
                    DblDiv(minOrderValue, targetPx), FALSE, reason, now)
    ELSE <<AfterLoop(ords, side, kept), ctr>>

\* a management block from "if (q.bidActive && !bidExists)" on
ManagePlace(ords, ctr, side, sideActive, targetPx, reason, now, kept) ==
  IF sideActive /\ (\A i \in 1 .. Len(ords) : ~kept[i])
     /\ DblGt(targetPx, D0)
    THEN placeOrder(AfterLoop(ords, side, kept), ctr, side, targetPx,
                    DblDiv(minOrderValue, targetPx), FALSE, reason, now)
    ELSE <<AfterLoop(ords, side, kept), ctr>>

\* a management block for targetPx = toDouble(q.bidPx)
ManageAt(ords, ctr, side, sideActive, targetPx, reason, now, tolerance) ==
  ManagePlace(ords, ctr, side, sideActive, targetPx, reason, now,
              [i \in 1 .. Len(ords) |->
                 Managed(ords[i], side) /\ sideActive
                 /\ ~OffTarget(ords[i], targetPx, tolerance)])

\* one of the two management blocks of executeQuotes (BID / ASK):
\* <<orders, orderIdCounter>> after it
ManageSide(ords, ctr, side, sideActive, sidePx, reason, now) ==
  ManageAt(ords, ctr, side, sideActive, toDouble(sidePx), reason, now,
           DblLit(1, 5))

\* whether executeQuotes returns at once: if (q.reason == "SAFETY_...")
SkipsExecution(q) == q.reason = "SAFETY_LATENCY_GUARD"

\* the taker branch of executeQuotes for the price p it reads
TakerOrder(ords, ctr, q, p, now) ==
  IF DblGt(p, D0)
    THEN placeOrder(ords, ctr, IF q.takerSide = "B" THEN "B" ELSE "A",
                    p, DblDiv(minOrderValue, p), FALSE, q.reason, now)
    ELSE <<ords, ctr>>

\* the first level of the taker's own side
TakerPriceSameSide(dbook, q) ==
  IF q.takerSide = "B"
    THEN (IF dbook.bids # <<>> THEN dbook.bids[1].price ELSE D0)
    ELSE (IF dbook.asks # <<>> THEN dbook.asks[1].price ELSE D0)

\* the price the taker branch reads: the first ask for a buy, the first
\* bid otherwise, 0 when that side is empty
TakerPrice(dbook, q) ==
  IF q.takerSide = "B"
    THEN (IF dbook.asks # <<>> THEN dbook.asks[1].price ELSE D0)
    ELSE (IF dbook.bids # <<>> THEN dbook.bids[1].price ELSE D0)

\* the ASK MANAGEMENT block, on b = <<orders, orderIdCounter>> as the
\* BID MANAGEMENT block left them
ManageAsk(b, q, now) ==
  ManageSide(b[1], b[2], "A", q.askActive, q.askPx, q.reason, now)

\* void executeQuotes(const Quotes &q): <<orders, orderIdCounter>> after it
executeQuotes(ords, ctr, dbook, q, now) ==
  IF SkipsExecution(q) THEN <<ords, ctr>>
  ELSE IF q.isTaker THEN TakerOrder(ords, ctr, q, TakerPrice(dbook, q), now)
  ELSE ManageAsk(ManageSide(ords, ctr, "B", q.bidActive, q.bidPx, q.reason,
                            now),
                 q, now)

\* the test with strict comparisons
FilledStrictly(o, tradePrice) ==
  \/ (o.side = "B" /\ DblLt(tradePrice, o.price))
  \/ (o.side = "A" /\ DblGt(tradePrice, o.price))

\* the test of checkFills: the trade print crosses the order's price
Filled(o, tradePrice) ==
  \/ (o.side = "B" /\ DblLe(tradePrice, o.price))
  \/ (o.side = "A" /\ DblGe(tradePrice, o.price))

\* std::abs(position) < 1e-9: position = 0; entryPrice = 0
Flatten(acct) ==
  IF DblLt(DblAbs(acct.position), DblLit(1, 9))
    THEN [acct EXCEPT !.position = D0, !.entryPrice = D0]
    ELSE acct

\* "Adding to Long": entryPrice = cost / position, pos the new position
AddedLong(acct, cost, pos) ==
  [acct EXCEPT !.position = pos, !.entryPrice = DblDiv(cost, pos)]

\* "Adding to Short": entryPrice = cost / std::abs(position)
AddedShort(acct, cost, pos) ==
  [acct EXCEPT !.position = pos, !.entryPrice = DblDiv(cost, DblAbs(pos))]

\* the reducing fill without the reset of a closed position
ReducedUnflattened(acct, pnl, pos) ==
  [acct EXCEPT !.balance = DblAdd(@, pnl), !.position = pos]

\* "Covering Short" / "Closing Long": balance += pnl, then the new
\* position pos
Reduced(acct, pnl, pos) ==
  Flatten([acct EXCEPT !.balance = DblAdd(@, pnl), !.position = pos])

\* the "PnL Logic" of checkFills for one filled order: the new account
ApplyFill(acct, o) ==
  IF o.side = "B" THEN
    IF DblGe(acct.position, D0)
      THEN AddedLong(acct,
                     DblAdd(DblMul(acct.position, acct.entryPrice),
                            DblMul(o.quantity, o.price)),
                     DblAdd(acct.position, o.quantity))
      ELSE Reduced(acct,
                   DblMul(DblSub(acct.entryPrice, o.price), o.quantity),
                   DblAdd(acct.position, o.quantity))
  ELSE
    IF DblLe(acct.position, D0)
      THEN AddedShort(acct,
                      DblAdd(DblMul(DblAbs(acct.position),
                                    acct.entryPrice),
                             DblMul(o.quantity, o.price)),
                      DblSub(acct.position, o.quantity))
      ELSE Reduced(acct,
                   DblMul(DblSub(o.price, acct.entryPrice), o.quantity),
                   DblSub(acct.position, o.quantity))

\* void checkFills(double tradePrice, long long ts), from order i on:
\* <<orders, account>> after it
RECURSIVE checkFills(_, _, _, _)
checkFills(ords, i, acct, tradePrice) ==
  IF i > Len(ords) THEN <<ords, acct>>
  ELSE IF ords[i].active /\ Filled(ords[i], tradePrice)
    THEN checkFills([ords EXCEPT ![i].active = FALSE], i + 1,
                    ApplyFill(acct, ords[i]), tradePrice)
    ELSE checkFills(ords, i + 1, acct, tradePrice)

\* the tag checkFills passes to logTrade for a fill of an order of this
\* side on an account with this position
FillTag(pos, side) ==
  IF side = "B"
    THEN IF DblGe(pos, D0) THEN "BUY_LONG" ELSE "BUY_COVER"
    ELSE IF DblLe(pos, D0) THEN "SELL_SHORT" ELSE "SELL_CLOSE"

\* the value of the fill in place of its pnl
FillPnlGross(acct, o) == DblMul(o.price, o.quantity)

\* the pnl checkFills passes to logTrade for that fill
FillPnl(acct, o) ==
  IF o.side = "B"
    THEN IF DblGe(acct.position, D0) THEN D0
         ELSE DblMul(DblSub(acct.entryPrice, o.price), o.quantity)
    ELSE IF DblLe(acct.position, D0) THEN D0
         ELSE DblMul(DblSub(o.price, acct.entryPrice), o.quantity)

\* logTrade(ts, side, o.price, o.quantity, pnl, o.reason): the call's
\* arguments
LogRecord(acct, o) ==
  [side |-> FillTag(acct.position, o.side), price |-> o.price,
   qty |-> o.quantity, pnl |-> FillPnl(acct, o), reason |-> o.reason]

\* the logTrade calls of checkFills(tradePrice, ts), from order i on
RECURSIVE logTrades(_, _, _, _)
logTrades(ords, i, acct, tradePrice) ==
  IF i > Len(ords) THEN <<>>
  ELSE IF ords[i].active /\ Filled(ords[i], tradePrice)
    THEN <<LogRecord(acct, ords[i])>>
         \o logTrades(ords, i + 1, ApplyFill(acct, ords[i]), tradePrice)
    ELSE logTrades(ords, i + 1, acct, tradePrice)

Account == [position |-> position, entryPrice |-> entryPrice,
            balance |-> balance]

\* hft_live.db with no row written
NoDb == [trades |-> <<>>, trade_log |-> <<>>]

\* whether the first and the second sqlite3_exec of one logTrade call
\* store their row (their return values are not read)
WriteOutcomes == BOOLEAN \X BOOLEAN

\* reason.find("ROCKET") != npos ? "ROCKET_SURFER" : "WICK_CATCHER"
StrategyType(reason) ==
  IF reason \in {"ROCKET_SURFER_BUY", "ROCKET_SURFER_SELL"}
    THEN "ROCKET_SURFER" ELSE "WICK_CATCHER"

\* the row of INSERT INTO trades
LegacyRow(acct, rec) ==
  [side |-> rec.side, price |-> rec.price, qty |-> rec.qty,
   pnl |-> rec.pnl, balance |-> acct.balance, reason |-> rec.reason]

\* the row of INSERT INTO trade_log
Gen3Row(sg, rec) ==
  [side |-> rec.side, strategy_type |-> StrategyType(rec.reason),
   entry_price |-> toFixed(rec.price), pnl_realized |-> toFixed(rec.pnl),
   trigger_reason |-> rec.reason,
   telemetry_velocity |->
     DblTrunc(DblMul(getTradeVelocity(sg), DblOfInt(100))),
   telemetry_vpin |-> getVPIN(sg)]

\* a logTrade that takes the pnl back off the balance when the journal is
\* not available
logTradeUndoing(st, ready, sg, rec, ok) ==
  IF ~ready
    THEN [st EXCEPT !.acct.balance = DblSub(@, rec.pnl)]
    ELSE st

\* void logTrade(timestamp, side, price, qty, pnl, reason) on
\* st = [acct, db], the account and the database: nothing when !dbReady,
\* else the two INSERTs, each storing its row when ok says so
logTrade(st, ready, sg, rec, ok) ==
  IF ~ready THEN st
  ELSE [st EXCEPT
          !.db.trades =
             IF ok[1] THEN Append(@, LegacyRow(st.acct, rec)) ELSE @,
          !.db.trade_log =
             IF ok[2] THEN Append(@, Gen3Row(sg, rec)) ELSE @]

\* the orders checkFills(tradePrice, ts) fills, by index
FilledOrders(ords, tradePrice) ==
  {i \in DOMAIN ords : ords[i].active /\ Filled(ords[i], tradePrice)}

\* the outcomes of the writes of one checkFills call: one per filled order
\* (none is attempted when !dbReady)
FillWrites(ords, tradePrice, ready) ==
  IF ready THEN [FilledOrders(ords, tradePrice) -> WriteOutcomes]
  ELSE {[i \in FilledOrders(ords, tradePrice) |-> <<FALSE, FALSE>>]}

\* void checkFills(double tradePrice, long long ts) with its logTrade
\* calls, from order i on: <<orders, [acct, db]>> after it.  logTrade reads
\* balance, which the reset of a closed position after it leaves alone.
RECURSIVE checkFillsLogged(_, _, _, _, _, _, _)
checkFillsLogged(ords, i, st, tradePrice, ready, sg, oks) ==
  IF i > Len(ords) THEN <<ords, st>>
  ELSE IF ords[i].active /\ Filled(ords[i], tradePrice)
    THEN checkFillsLogged(
           [ords EXCEPT ![i].active = FALSE], i + 1,
           logTrade([st EXCEPT !.acct = ApplyFill(@, ords[i])], ready, sg,
                    LogRecord(st.acct, ords[i]), oks[i]),
           tradePrice, ready, sg, oks)
    ELSE checkFillsLogged(ords, i + 1, st, tradePrice, ready, sg, oks)

\* the MarketUpdate parseLine builds from a TRADE line; now is
\* std::time(nullptr)
TradeUpdate(parts, now) ==
  [type |-> "T",
   timestamp_local |-> Mul64(ZOf(now), ZOf(1000000000)),
   timestamp_exchange |-> Mul64(Stoll(parts[2]), ZOf(1000000)),
   price |-> toFixed(Stod(parts[4])),
   size |-> toFixed(Stod(parts[5])),
   side |-> IF IsWord(parts[3], "BUY") THEN "B" ELSE "A"]

IsDepthLine(parts) ==
  parts # <<>> /\ IsWord(parts[1], "DEPTH") /\ Len(parts) >= 4
IsTradeLine(parts) ==
  parts # <<>> /\ IsWord(parts[1], "TRADE") /\ Len(parts) >= 5

\* whether std::stod or std::stoll throws in parseLine or onDepth; nothing
\* up the call chain catches it
ParseLineThrows(parts) ==
  \/ IsDepthLine(parts) /\ (ParseThrows(parts[3]) \/ ParseThrows(parts[4]))
  \/ IsTradeLine(parts)
     /\ (~IsNumber(parts[4]) \/ StollThrows(parts[2]) \/ ~IsNumber(parts[5]))

\* void printDashboard(): its rate limit, the only state it changes
printDashboard(last, now) == IF now - last < 1 THEN last ELSE now

\* the LiveEngine as constructed
EngineConstructed ==
  /\ displayBook = [bids |-> <<>>, asks |-> <<>>]
  /\ book = EmptyBook
  /\ signals = NewSignals
  /\ currentPosition = Z0
  /\ orders = <<>>
  /\ orderIdCounter = 0
  /\ position = D0
  /\ entryPrice = D0
  /\ balance = initialBalance
  /\ lastDashboardPrint = 0
  /\ terminated = FALSE
  /\ events = 0
  /\ executed = <<>>
  /\ tradePrint = <<>>
  /\ journal = <<>>

\* void initDB(): dbReady stays false when sqlite3_open fails; the tables
\* hold no row of this session
initDB == dbReady \in BOOLEAN /\ db = NoDb

\* initDB when sqlite3_open fails: no journal
DbUnavailable == dbReady = FALSE /\ db = NoDb

(***************************************************************************)
(* Harness: one writer thread that calls push, one reader thread that      *)
(* calls pop, on either ring class.                                        *)
(***************************************************************************)
ProducerCall(item) ==
  /\ ppc = "idle"
  /\ pushCalls < MaxPushes
  /\ p_item' = item
  /\ pushCalls' = pushCalls + 1
  /\ serial' = (serial /\ popCalls = 0)
  /\ ppc' = "push_load_head"
  /\ UNCHANGED <<ringKind, buffer, head, tail, current_head, next_head,
                 p_ret, cpc, current_tail, out_item, c_ret, pushed, popped,
                 popCalls, pushFails>>
  /\ UNCHANGED nonRingVars

ProducerReturn ==
  /\ ppc = "push_ret"
  /\ ppc' = "idle"
  /\ UNCHANGED <<ringKind, buffer, head, tail, p_item, current_head,
                 next_head, p_ret, cpc, current_tail, out_item, c_ret,
                 pushed, popped, pushCalls, popCalls, pushFails, serial>>
  /\ UNCHANGED nonRingVars

ConsumerCall ==
  /\ cpc = "idle"
  /\ popCalls < MaxPops
  /\ popCalls' = popCalls + 1
  /\ serial' = (serial /\ ppc = "idle")
  /\ cpc' = "pop_load_tail"
  /\ UNCHANGED <<ringKind, buffer, head, tail, ppc, p_item, current_head,
                 next_head, p_ret, current_tail, out_item, c_ret, pushed,
                 popped, pushCalls, pushFails>>
  /\ UNCHANGED nonRingVars

ConsumerReturn ==
  /\ cpc = "pop_ret"
  /\ cpc' = "idle"
  /\ UNCHANGED <<ringKind, buffer, head, tail, ppc, p_item, current_head,
                 next_head, p_ret, current_tail, out_item, c_ret, pushed,
                 popped, pushCalls, popCalls, pushFails, serial>>
  /\ UNCHANGED nonRingVars

\* state after construction: head(0), tail(0), value-initialised slots
RingConstructed(kind) ==
  /\ ringKind = kind
  /\ buffer = [i \in 0 .. BufferSize(kind, RingParam) - 1 |-> NoItem]
  /\ head = 0
  /\ tail = 0

InitRing ==
  /\ \E kind \in {"RingBuffer.hpp", "recorder.cpp"} : RingConstructed(kind)
  /\ ppc = "idle" /\ p_item = NoItem /\ current_head = 0 /\ next_head = 0
  /\ p_ret = FALSE
  /\ cpc = "idle" /\ current_tail = 0 /\ out_item = NoItem /\ c_ret = FALSE
  /\ pushed = <<>> /\ popped = <<>>
  /\ pushCalls = 0 /\ popCalls = 0 /\ pushFails = 0
  /\ serial = TRUE
  /\ RecorderIdle
  /\ EngineConstructed
  /\ DbUnavailable

NextRing ==
  \/ \E item \in Items : ProducerCall(item)
  \/ PushLoadHead
  \/ PushLoadTail
  \/ PushWrite
  \/ PushStoreHead
  \/ ProducerReturn
  \/ ConsumerCall
  \/ PopLoadTail
  \/ PopLoadHead
  \/ PopRead
  \/ PopStoreTail
  \/ ConsumerReturn

SpecRing == InitRing /\ [][NextRing]_vars

(***************************************************************************)
(* recorder.cpp: main (the producer) and consumerThreadFunc.               *)
(***************************************************************************)
\* number of input lines main reads before its input closes
MaxLines == 2

\* exchange timestamp (ms) of the model's input lines
TsField == DecLong(1700000, 6, 123)

\* the input lines of the model
RecLines == {
  <<W("TRADE"), TsField, W("WLDUSDT"), W("SELL"), Dec(20000, 4), Dec(10, 1)>>,
  <<W("DEPTH"), TsField, W("WLDUSDT"),
    DepthList(<< <<Dec(5000, 4), Dec(10, 1)>> >>),
    DepthList(<< <<Dec(5002, 4), Dec(10, 1)>>, NoColon >>)>>,
  <<W("LIQ"), TsField, W("WLDUSDT"), W("Sell"), Dec(208, 2), Dec(10, 1)>>,
  <<W("TICKER"), TsField, W("WLDUSDT"), Dec(2323223, 2), Dec(1, 4),
    Dec(20001, 4)>>,
  <<W("TRADE"), TsField, W("WLDUSDT"), W("BUY"), W("abc"), Dec(10, 1)>>,
  <<W("HELLO"), TsField>>,
  <<W("TRADE"), TsField, W("BTCUSDT"), W("BUY"), Dec(30000, 4), Dec(10, 1)>>,
  <<W("LIQ"), TsField, W("WLDUSDT")>>,
  <<W("TRADE"), TsField, W("WLDUSDT"), W("BUY"), Dec(201, 2), Dec(15, 1)>> }

\* what an uninitialised int64_t array entry may hold
JunkValues == {Z0, ZOf(7)}

\* while (std::getline(std::cin, line)) { ... ringBuffer.push(msg) ... }:
\* one line is read and parsed; push is entered when the line has a message
MainGetline(parts, junk) ==
  /\ ppc = "idle"
  /\ running
  /\ linesRead < MaxLines
  /\ linesRead' = linesRead + 1
  /\ LET r == ParseInputLine(parts, MODE_VISUAL, junk)
     IN  IF r[1]
           THEN /\ p_item' = r[2]
                /\ pushCalls' = pushCalls + 1
                /\ ppc' = "push_load_head"
           ELSE UNCHANGED <<p_item, pushCalls, ppc>>
  /\ UNCHANGED <<ringKind, buffer, head, tail, current_head, next_head,
                 p_ret, cpc, current_tail, out_item, c_ret, pushed, popped,
                 popCalls, pushFails, serial>>
  /\ UNCHANGED <<MODE_HEADLESS, MODE_VISUAL, running, fileOpen, bufPos,
                 wbuf, fileData, liquidationMap, ticker, lastTradePrice>>
  /\ UNCHANGED engVars

\* std::getline fails (the input closed): running.store(false);
MainEof ==
  /\ ppc = "idle"
  /\ running
  /\ running' = FALSE
  /\ ppc' = "join"
  /\ UNCHANGED <<ringKind, buffer, head, tail, p_item, current_head,
                 next_head, p_ret, cpc, current_tail, out_item, c_ret,
                 pushed, popped, pushCalls, popCalls, pushFails, serial>>
  /\ UNCHANGED <<MODE_HEADLESS, MODE_VISUAL, linesRead, fileOpen, bufPos,
                 wbuf, fileData, liquidationMap, ticker, lastTradePrice>>
  /\ UNCHANGED engVars

\* consumer.join(); return 0;
MainJoin ==
  /\ ppc = "join"
  /\ cpc = "thread_end"
  /\ ppc' = "exit"
  /\ UNCHANGED <<ringKind, buffer, head, tail, p_item, current_head,
                 next_head, p_ret, cpc, current_tail, out_item, c_ret,
                 pushed, popped, pushCalls, popCalls, pushFails, serial>>
  /\ UNCHANGED recVars
  /\ UNCHANGED engVars

\* consumerThreadFunc up to its loop: FileWriter writer; writer.rotate()
ConsumerStart(openOk) ==
  /\ cpc = "start"
  /\ SetWriter(IF MODE_HEADLESS THEN WriterRotate(Writer, openOk)
               ELSE Writer)
  /\ cpc' = "pop_load_tail"
  /\ UNCHANGED <<ringKind, buffer, head, tail, ppc, p_item, current_head,
                 next_head, p_ret, current_tail, out_item, c_ret, pushed,
                 popped, pushCalls, popCalls, pushFails, serial>>
  /\ UNCHANGED <<MODE_HEADLESS, MODE_VISUAL, running, linesRead,
                 liquidationMap, ticker, lastTradePrice>>
  /\ UNCHANGED engVars

\* the visual-mode branch of the loop body for a popped msg
VisualUpdate(msg) ==
  IF msg.type = TYPE_TRADE THEN
    /\ liquidationMap' = onTrade(liquidationMap, E8ToDbl(msg.price),
                                 E8ToDbl(msg.qty), msg.is_buyer_maker)
    /\ lastTradePrice' = E8ToDbl(msg.price)
    /\ UNCHANGED ticker
  ELSE IF msg.type = TYPE_LIQ THEN
    /\ liquidationMap' = onLiquidation(liquidationMap, E8ToDbl(msg.price),
                                       E8ToDbl(msg.qty), msg.side)
    /\ UNCHANGED <<ticker, lastTradePrice>>
  ELSE IF msg.type = TYPE_TICKER THEN
    /\ ticker' = <<msg.open_interest, msg.funding_rate, msg.mark_price>>
    /\ UNCHANGED <<liquidationMap, lastTradePrice>>
  ELSE UNCHANGED <<liquidationMap, ticker, lastTradePrice>>

\* a loop without the break: "while (running.load() || true)" alone
ConsumerNeverBreaks(popRet, runningSeen) == FALSE

\* whether the loop leaves through "if (!running.load()) break;" after a
\* pop that returned popRet
ConsumerBreaks(popRet, runningSeen) == ~popRet /\ ~runningSeen

\* the writer after the loop body's periodic "Disk Flush (1s)"
PeriodicFlush(w, headless, oneSec) ==
  IF headless /\ oneSec THEN WriterFlush(w) ELSE w

\* the writer when consumerThreadFunc returns: ~FileWriter() only frees
\* the buffer, the std::ofstream member closes the file
WriterDestroyed(w) == [w EXCEPT !.open = FALSE]

\* one pass of the loop body after ringBuffer.pop(msg) returned:
\* lines 150-223.  sixtyMin, oneSec: what the clocks say; openOk: whether
\* a rotation's open succeeds
ConsumerIteration(sixtyMin, openOk, oneSec) ==
  /\ cpc = "pop_ret"
  /\ IF ConsumerBreaks(c_ret, running)
       THEN /\ cpc' = "thread_end"
            /\ SetWriter(WriterDestroyed(Writer))
            /\ UNCHANGED <<liquidationMap, ticker, lastTradePrice>>
       ELSE /\ cpc' = "pop_load_tail"
            /\ IF c_ret /\ MODE_VISUAL
                 THEN VisualUpdate(out_item)
                 ELSE UNCHANGED <<liquidationMap, ticker, lastTradePrice>>
            /\ LET w1 == IF c_ret /\ MODE_HEADLESS
                           THEN WriterWrite(
                                  WriterCheckRotation(Writer, sixtyMin,
                                                      openOk),
                                  out_item,
                                  2 + SizeofPayload(out_item.type))
                           ELSE Writer
               IN  SetWriter(PeriodicFlush(w1, MODE_HEADLESS, oneSec))
  /\ UNCHANGED <<ringKind, buffer, head, tail, ppc, p_item, current_head,
                 next_head, p_ret, current_tail, out_item, c_ret, pushed,
                 popped, pushCalls, popCalls, pushFails, serial>>
  /\ UNCHANGED <<MODE_HEADLESS, MODE_VISUAL, running, linesRead>>
  /\ UNCHANGED engVars

InitRecorder ==
  /\ RingConstructed("recorder.cpp")
  /\ ppc = "idle" /\ p_item = NoItem /\ current_head = 0 /\ next_head = 0
  /\ p_ret = FALSE
  /\ cpc = "start" /\ current_tail = 0 /\ out_item = NoItem /\ c_ret = FALSE
  /\ pushed = <<>> /\ popped = <<>>
  /\ pushCalls = 0 /\ popCalls = 0 /\ pushFails = 0
  /\ serial = TRUE
  /\ \E headless \in BOOLEAN :
       /\ MODE_HEADLESS = headless
       /\ MODE_VISUAL = ~headless
  /\ running = TRUE
  /\ linesRead = 0
  /\ fileOpen = FALSE /\ bufPos = 0 /\ wbuf = <<>> /\ fileData = <<>>
  /\ liquidationMap = <<>>
  /\ ticker = <<Z0, Z0, Z0>>
  /\ lastTradePrice = D0
  /\ EngineConstructed
  /\ DbUnavailable

NextRecorder ==
  \/ \E parts \in RecLines, junk \in JunkValues : MainGetline(parts, junk)
  \/ MainEof
  \/ MainJoin
  \/ PushLoadHead
  \/ PushLoadTail
  \/ PushWrite
  \/ PushStoreHead
  \/ ProducerReturn
  \/ \E openOk \in BOOLEAN : ConsumerStart(openOk)
  \/ PopLoadTail
  \/ PopLoadHead
  \/ PopRead
  \/ PopStoreTail
  \/ \E sixtyMin \in BOOLEAN, openOk \in BOOLEAN, oneSec \in BOOLEAN :
       ConsumerIteration(sixtyMin, openOk, oneSec)

SpecRecorder == InitRecorder /\ [][NextRecorder]_vars

\* a MarketMsg of the zero-initialised static ring (recorder.cpp:47)
ZeroMsg == [type |-> 0, symbol_id |-> 0, timestamp |-> Z0]

\* the recorder as InitRecorder builds it, the ring's slots and the two
\* message locals holding a MarketMsg from the start
InitRecorderFair ==
  /\ ringKind = "recorder.cpp"
  /\ buffer = [i \in 0 .. BufferSize("recorder.cpp", RingParam) - 1 |->
                 ZeroMsg]
  /\ head = 0 /\ tail = 0
  /\ ppc = "idle" /\ p_item = ZeroMsg /\ current_head = 0 /\ next_head = 0
  /\ p_ret = FALSE
  /\ cpc = "start" /\ current_tail = 0 /\ out_item = ZeroMsg /\ c_ret = FALSE
  /\ pushed = <<>> /\ popped = <<>>
  /\ pushCalls = 0 /\ popCalls = 0 /\ pushFails = 0
  /\ serial = TRUE
  /\ \E headless \in BOOLEAN :
       /\ MODE_HEADLESS = headless
       /\ MODE_VISUAL = ~headless
  /\ running = TRUE
  /\ linesRead = 0
  /\ fileOpen = FALSE /\ bufPos = 0 /\ wbuf = <<>> /\ fileData = <<>>
  /\ liquidationMap = <<>>
  /\ ticker = <<Z0, Z0, Z0>>
  /\ lastTradePrice = D0
  /\ EngineConstructed
  /\ DbUnavailable

\* the positions of consumerThreadFunc
ConsumerPositions ==
  {"start", "pop_load_tail", "pop_load_head", "pop_read", "pop_store",
   "pop_ret", "thread_end"}

\* a step of the consumer thread: it is the only thread that moves cpc,
\* each of its steps moves cpc, and until it has returned it can always
\* take one (it yields and polls, it never blocks)
ConsumerStep ==
  /\ cpc # "thread_end"
  /\ cpc' \in ConsumerPositions \ {cpc}

\* all variables, the ones every step of the recorder moves first: the two
\* threads' positions, running and the number of lines read
threadVars == <<ppc, cpc, running, linesRead, vars>>

\* the recorder with both threads scheduled fairly: the consumer thread
\* keeps being scheduled until it returns, and consumer.join() returns once
\* the thread has ended.  Whether and when the input closes is up to the
\* environment.
SpecRecorderFair ==
  /\ InitRecorderFair
  /\ [][NextRecorder]_threadVars
  /\ WF_cpc(ConsumerStep)
  /\ WF_ppc(MainJoin)

(***************************************************************************)
(* LiveEngine::run: one pass of its loop per input line.  The calls of     *)
(* std::time(nullptr) within one pass return the same second, now; the     *)
(* wall clock is not monotonic.  dumpOrderBook, dumpDashboardState and     *)
(* logTrade write files and the journal only.                              *)
(***************************************************************************)
\* number of input lines LiveEngine::run reads
MaxEvents == 3

\* parseLine on a DEPTH line: onDepth, then updateStrategy
DepthLine(parts, now) ==
  /\ ~terminated
  /\ events < MaxEvents
  /\ IsDepthLine(parts)
  /\ ~ParseLineThrows(parts)
  /\ events' = events + 1
  /\ displayBook' = onDepth(parts[3], parts[4])
  /\ book' = RebuiltBook(displayBook')
  /\ currentPosition' = DblTrunc(position)
  /\ executed' = <<getQuotes(book', signals, currentPosition')>>
  /\ LET Left(r) == orders' = r[1] /\ orderIdCounter' = r[2]
     IN  Left(executeQuotes(orders, orderIdCounter, displayBook',
                            executed'[1], now))
  /\ lastDashboardPrint' = printDashboard(lastDashboardPrint, now)
  /\ tradePrint' = <<>>
  /\ UNCHANGED <<signals, position, entryPrice, balance, terminated,
                 journal, dbReady, db>>
  /\ UNCHANGED <<ringVars, recVars>>

\* parseLine on a TRADE line: strategy.update(mu), then checkFills
TradeLine(parts, now) ==
  /\ ~terminated
  /\ events < MaxEvents
  /\ IsTradeLine(parts)
  /\ ~ParseLineThrows(parts)
  /\ events' = events + 1
  /\ LET Updated(u) == book' = u[1] /\ signals' = u[2]
     IN  Updated(StrategyUpdate(book, signals, TradeUpdate(parts, now)))
  /\ LET Checked(f) == /\ orders' = f[1]
                       /\ position' = f[2].acct.position
                       /\ entryPrice' = f[2].acct.entryPrice
                       /\ balance' = f[2].acct.balance
                       /\ db' = f[2].db
     IN  \E oks \in FillWrites(orders, Stod(parts[4]), dbReady) :
           Checked(checkFillsLogged(orders, 1, [acct |-> Account, db |-> db],
                                    Stod(parts[4]), dbReady, signals', oks))
  /\ tradePrint' = <<Stod(parts[4])>>
  /\ journal' = journal \o logTrades(orders, 1, Account, Stod(parts[4]))
  /\ executed' = <<>>
  /\ lastDashboardPrint' = printDashboard(lastDashboardPrint, now)
  /\ UNCHANGED <<displayBook, currentPosition, orderIdCounter, terminated,
                 dbReady>>
  /\ UNCHANGED <<ringVars, recVars>>

\* parseLine returns without doing anything: an empty line, another first
\* field, or too few fields
IgnoredLine(parts, now) ==
  /\ ~terminated
  /\ events < MaxEvents
  /\ ~IsDepthLine(parts) /\ ~IsTradeLine(parts)
  /\ events' = events + 1
  /\ executed' = <<>>
  /\ tradePrint' = <<>>
  /\ lastDashboardPrint' = printDashboard(lastDashboardPrint, now)
  /\ UNCHANGED <<displayBook, book, signals, currentPosition, orders,
                 orderIdCounter, position, entryPrice, balance, terminated,
                 journal, dbReady, db>>
  /\ UNCHANGED <<ringVars, recVars>>

\* a field is not a number: the exception ends the process
ThrowingLine(parts) ==
  /\ ~terminated
  /\ events < MaxEvents
  /\ ParseLineThrows(parts)
  /\ events' = events + 1
  /\ terminated' = TRUE
  /\ UNCHANGED <<displayBook, book, signals, currentPosition, orders,
                 orderIdCounter, position, entryPrice, balance,
                 lastDashboardPrint, executed, tradePrint, journal,
                 dbReady, db>>
  /\ UNCHANGED <<ringVars, recVars>>

\* exchange timestamps (ms) of the trade lines
TsTrade1 == DecLong(1700000, 6, 123)
TsTrade2 == DecLong(1700000, 6, 124)

\* the input lines of the model: "DEPTH|ts|bids|asks", "TRADE|ts|side|px|qty"
EngineLines == {
  \* a two-level bid side and a one-level ask side, in order
  <<W("DEPTH"), TsTrade1,
    DepthList(<< <<Dec(5000, 4), Dec(1000, 1)>>,
                 <<Dec(4999, 4), Dec(500, 1)>> >>),
    DepthList(<< <<Dec(5002, 4), Dec(1000, 1)>> >>)>>,
  \* bids listed lowest first, a pair without ':' among the asks
  <<W("DEPTH"), TsTrade1,
    DepthList(<< <<Dec(4990, 4), Dec(100, 1)>>,
                 <<Dec(5000, 4), Dec(100, 1)>> >>),
    DepthList(<< NoColon, <<Dec(5010, 4), Dec(100, 1)>> >>)>>,
  \* the best bid above the best ask
  <<W("DEPTH"), TsTrade1,
    DepthList(<< <<Dec(5010, 4), Dec(100, 1)>> >>),
    DepthList(<< <<Dec(5000, 4), Dec(100, 1)>> >>)>>,
  \* the ask side is missing
  <<W("DEPTH"), TsTrade1,
    DepthList(<< <<Dec(5000, 4), Dec(100, 1)>> >>)>>,
  <<W("TRADE"), TsTrade1, W("BUY"), Dec(5010, 4), Dec(10, 1)>>,
  <<W("TRADE"), TsTrade2, W("SELL"), Dec(4990, 4), Dec(10, 1)>>,
  <<W("TRADE"), TsTrade1, W("BUY"), W("abc"), Dec(10, 1)>> }

\* the seconds std::time(nullptr) returns: with the first, a trade line is
\* 123 ms ahead of the local clock, with the second 877 ms behind it
Clock == {1700000000, 1700000001}

InitEngine ==
  /\ RingConstructed("RingBuffer.hpp")
  /\ ppc = "idle" /\ p_item = NoItem /\ current_head = 0 /\ next_head = 0
  /\ p_ret = FALSE
  /\ cpc = "idle" /\ current_tail = 0 /\ out_item = NoItem /\ c_ret = FALSE
  /\ pushed = <<>> /\ popped = <<>>
  /\ pushCalls = 0 /\ popCalls = 0 /\ pushFails = 0
  /\ serial = TRUE
  /\ RecorderIdle
  /\ EngineConstructed
  /\ DbUnavailable

NextEngine ==
  \/ \E parts \in EngineLines, now \in Clock : DepthLine(parts, now)
  \/ \E parts \in EngineLines, now \in Clock : TradeLine(parts, now)
  \/ \E parts \in EngineLines, now \in Clock : IgnoredLine(parts, now)
  \/ \E parts \in EngineLines : ThrowingLine(parts)

SpecEngine == InitEngine /\ [][NextEngine]_vars

(***************************************************************************)
(* SignalEngine::addEvent on its own: any caller, any events.              *)
(***************************************************************************)
\* number of addEvent calls
MaxSignalEvents == 3

\* timestamps (ns) of the events: on time, 600 ms late, and 500 ms and
\* 500 ms + 1 ns late
SignalExchangeTime == ZE(17, 17)
SignalLocalTimes == {ZE(17, 17), ZAdd(ZE(17, 17), ZE(6, 8)),
                     ZAdd(ZE(17, 17), ZE(5, 8)),
                     ZAdd(ZE(17, 17), ZOf(500000001))}

\* sizes (E8) of the events: none, 1.0, 1000.0, 2049 E8 units, and the
\* largest double below 2^63
SignalSizes == {Z0, ZOf(100000000), ZE(1, 11), ZOf(2049),
                <<1, BigSub(BigPow2(63), <<1024>>)>>}

SignalEvents ==
  [type : {"T"}, side : {"B", "A"}, size : SignalSizes,
   price : {ZOf(50000000)},
   timestamp_exchange : {SignalExchangeTime},
   timestamp_local : {ZE(17, 17)}]
  \cup
  [type : {"T", "A"}, side : {"B"}, size : {ZOf(100000000)},
   price : {ZOf(50010000)},
   timestamp_exchange : {SignalExchangeTime},
   timestamp_local : SignalLocalTimes]

SignalAddEvent(mu) ==
  /\ events < MaxSignalEvents
  /\ events' = events + 1
  /\ signals' = addEvent(signals, mu)
  /\ UNCHANGED <<displayBook, book, currentPosition, orders, orderIdCounter,
                 position, entryPrice, balance, lastDashboardPrint,
                 terminated, executed, tradePrint, journal,
                 dbReady, db>>
  /\ UNCHANGED <<ringVars, recVars>>

NextSignal == \E mu \in SignalEvents : SignalAddEvent(mu)

SpecSignal == InitEngine /\ [][NextSignal]_vars

(***************************************************************************)
(* SignalEngine::addEvent on a new engine and on one whose window is full. *)
(***************************************************************************)
\* record i of the full window, the oldest being record 0: buys and sells
\* alternate, sizes 1.0, 2.0, 3.0 in turn, one record per millisecond
SeedRecord(i) ==
  [price |-> ZOf(50000000),
   size |-> ZOf(((i % 3) + 1) * 100000000),
   side |-> IF i % 2 = 0 THEN "B" ELSE "A",
   timestamp |-> ZAdd(ZE(17, 17), ZOf(i * 1000000))]

\* the sizes (E8) of the seed's buys and of its sells, added up: 334 buys
\* of 1.0 or 3.0 and 166 of 2.0 (1000.0), 333 sells of 2.0 or 3.0 and 167
\* of 1.0 (999.0)
SeedBuyVol == ZE(1000, 8)
SeedSellVol == ZE(999, 8)

\* the engine after WINDOW_SIZE + 7 trades: every slot holds a record and
\* the oldest record is in slot 7
FullSignals ==
  [history |-> [h \in 0 .. WINDOW_SIZE - 1 |->
                  SeedRecord((h + WINDOW_SIZE - 7) % WINDOW_SIZE)],
   head |-> 7, count |-> WINDOW_SIZE,
   runningBuyVol |-> SeedBuyVol, runningSellVol |-> SeedSellVol,
   currentLatency |-> Z0, isStale |-> FALSE]

\* the events: a buy of 1.0, a sell of 2.0, a buy of 2^63 - 1024 E8 units
\* (the buy total overflows), and an event that is not a trade
WindowEvents ==
  [type : {"T"}, side : {"B"},
   size : {ZOf(100000000), <<1, BigSub(BigPow2(63), <<1024>>)>>},
   price : {ZOf(50010000)},
   timestamp_exchange : {ZE(18, 17)}, timestamp_local : {ZE(18, 17)}]
  \cup
  [type : {"T", "A"}, side : {"A"}, size : {ZOf(200000000)},
   price : {ZOf(50010000)},
   timestamp_exchange : {ZE(18, 17)}, timestamp_local : {ZE(18, 17)}]

InitWindow ==
  /\ RingConstructed("RingBuffer.hpp")
  /\ ppc = "idle" /\ p_item = NoItem /\ current_head = 0 /\ next_head = 0
  /\ p_ret = FALSE
  /\ cpc = "idle" /\ current_tail = 0 /\ out_item = NoItem /\ c_ret = FALSE
  /\ pushed = <<>> /\ popped = <<>>
  /\ pushCalls = 0 /\ popCalls = 0 /\ pushFails = 0
  /\ serial = TRUE
  /\ RecorderIdle
  /\ displayBook = [bids |-> <<>>, asks |-> <<>>]
  /\ book = EmptyBook
  /\ signals \in {NewSignals, FullSignals}
  /\ currentPosition = Z0
  /\ orders = <<>>
  /\ orderIdCounter = 0
  /\ position = D0
  /\ entryPrice = D0
  /\ balance = initialBalance
  /\ lastDashboardPrint = 0
  /\ terminated = FALSE
  /\ events = 0
  /\ executed = <<>>
  /\ tradePrint = <<>>
  /\ journal = <<>>
  /\ DbUnavailable

NextWindow == \E mu \in WindowEvents : SignalAddEvent(mu)

SpecWindow == InitWindow /\ [][NextWindow]_vars

(***************************************************************************)
(* OrderBookL3 on its own: any caller, any addOrder calls.                 *)
(***************************************************************************)
\* number of addOrder calls after construction of the book
MaxBookOrders == 3

\* prices (E8) of the updates: 0.5000 and 0.5002
BookPrices == {ZOf(50000000), ZOf(50020000)}
\* sizes (E8) of the updates: none, 10.0 and 10.00000001
BookSizes == {Z0, ZOf(1000000000), ZOf(1000000001)}

BookUpdates == [side : {"B", "A"}, price : BookPrices, size : BookSizes]

\* the book after addOrder for each update of a sequence, in order
RECURSIVE BookAfter(_, _)
BookAfter(bk, updates) ==
  IF updates = <<>> THEN bk
  ELSE BookAfter(addOrder(bk, Head(updates)), Tail(updates))

\* six bid levels of 1.0 at 0.5000 and below
SixBids ==
  [i \in 1 .. 6 |-> [side |-> "B", price |-> ZOf(50000000 - 10000 * (i - 1)),
                     size |-> ZOf(100000000)]]

\* the books a caller starts from: a new one, and one six bid levels deep
BookSeeds == {EmptyBook, BookAfter(EmptyBook, SixBids)}

InitBook ==
  /\ RingConstructed("RingBuffer.hpp")
  /\ ppc = "idle" /\ p_item = NoItem /\ current_head = 0 /\ next_head = 0
  /\ p_ret = FALSE
  /\ cpc = "idle" /\ current_tail = 0 /\ out_item = NoItem /\ c_ret = FALSE
  /\ pushed = <<>> /\ popped = <<>>
  /\ pushCalls = 0 /\ popCalls = 0 /\ pushFails = 0
  /\ serial = TRUE
  /\ RecorderIdle
  /\ displayBook = [bids |-> <<>>, asks |-> <<>>]
  /\ book \in BookSeeds
  /\ signals = NewSignals
  /\ currentPosition = Z0
  /\ orders = <<>>
  /\ orderIdCounter = 0
  /\ position = D0
  /\ entryPrice = D0
  /\ balance = initialBalance
  /\ lastDashboardPrint = 0
  /\ terminated = FALSE
  /\ events = 0
  /\ executed = <<>>
  /\ tradePrint = <<>>
  /\ journal = <<>>
  /\ DbUnavailable

\* book.addOrder(update)
AddOrderCall(update) ==
  /\ events < MaxBookOrders
  /\ events' = events + 1
  /\ book' = addOrder(book, update)
  /\ UNCHANGED <<displayBook, signals, currentPosition, orders,
                 orderIdCounter, position, entryPrice, balance,
                 lastDashboardPrint, terminated, executed, tradePrint,
                 journal, dbReady, db>>
  /\ UNCHANGED <<ringVars, recVars>>

NextBook == \E update \in BookUpdates : AddOrderCall(update)

SpecBook == InitBook /\ [][NextBook]_vars

(***************************************************************************)
(* MarketMakerStrategy on its own: book and signals are public members,    *)
(* so a caller reaches every book with every trade window.                 *)
(***************************************************************************)
\* number of calls made on the strategy after its state is set up
MaxQuoteCalls == 2

\* a level update as addOrder reads it
Level(side, price, size) == [side |-> side, price |-> price, size |-> size]

\* the largest double below 2^63, as a price (E8)
TopPrice == <<1, BigSub(BigPow2(63), <<1024>>)>>

\* the books of the model:
\*   bid 0.5000 @ 1.0, ask 0.5002 @ 1.0 (no vacuum, no wall);
\*   bids 5.0 against asks 0.4 and the reverse (vacuum, one-sided);
\*   bids 0.4 against asks 0.4 (vacuum, balanced);
\*   bid and ask of 6.0 (a wall at the top);
\*   bid and ask at the top price an int64_t can take from a double;
\*   bids only;
\*   bid 0.5000 and ask 0.5002, both of size 0
QuoteBooks ==
  { BookAfter(EmptyBook, <<Level("B", ZOf(50000000), ZOf(100000000)),
                           Level("A", ZOf(50020000), ZOf(100000000))>>),
    BookAfter(EmptyBook, <<Level("B", ZOf(50000000), ZOf(500000000)),
                           Level("A", ZOf(50020000), ZOf(40000000))>>),
    BookAfter(EmptyBook, <<Level("B", ZOf(50000000), ZOf(40000000)),
                           Level("A", ZOf(50020000), ZOf(500000000))>>),
    BookAfter(EmptyBook, <<Level("B", ZOf(50000000), ZOf(40000000)),
                           Level("A", ZOf(50020000), ZOf(40000000))>>),
    BookAfter(EmptyBook, <<Level("B", ZOf(50000000), ZOf(600000000)),
                           Level("A", ZOf(50020000), ZOf(600000000))>>),
    BookAfter(EmptyBook, <<Level("B", TopPrice, ZOf(100000000)),
                           Level("A", TopPrice, ZOf(100000000))>>),
    BookAfter(EmptyBook, <<Level("B", ZOf(50000000), ZOf(100000000))>>),
    BookAfter(EmptyBook, <<Level("B", ZOf(50000000), Z0),
                           Level("A", ZOf(50020000), Z0)>>) }

\* trade number i of a run of trades: exchange time t0 + i * stepNs, seen
\* lateNs later
RunTrade(i, side, price, stepNs, lateNs) ==
  [type |-> "T", side |-> side, price |-> price, size |-> ZOf(100000000),
   timestamp_exchange |-> ZAdd(ZE(17, 17), ZMul(ZOf(i), ZOf(stepNs))),
   timestamp_local |-> ZAdd(ZAdd(ZE(17, 17), ZMul(ZOf(i), ZOf(stepNs))),
                            ZOf(lateNs))]

\* trades number from .. to of a run
TradeRun(from, to, side, price, stepNs) ==
  [i \in 1 .. (to - from + 1) |->
     RunTrade(from + i - 1, side, price, stepNs, 0)]

\* the signal engine after addEvent for each update of a sequence, in order
RECURSIVE SignalsAfter(_, _)
SignalsAfter(sg, updates) ==
  IF updates = <<>> THEN sg
  ELSE CHOOSE after \in {SignalsAfter(next, Tail(updates)) :
                           next \in {addEvent(sg, Head(updates))}} : TRUE

\* 49 taker buys at 0.5100 followed by one at 0.5090 (a bull trap), and 49
\* taker sells at 0.5090 followed by one at 0.5100 (a bear trap)
BullTrap(stepNs) ==
  TradeRun(1, 49, "B", ZOf(51000000), stepNs)
    \o TradeRun(50, 50, "B", ZOf(50900000), stepNs)
BearTrap(stepNs) ==
  TradeRun(1, 49, "A", ZOf(50900000), stepNs)
    \o TradeRun(50, 50, "A", ZOf(51000000), stepNs)

\* the trade windows of the model: empty; two trades 100 ms apart; two
\* trades 1 s apart; the traps with trades 1 ms apart and 1 s apart; two
\* trades 100 ms apart, the second seen 600 ms late
QuoteSignals ==
  { NewSignals,
    SignalsAfter(NewSignals, TradeRun(1, 2, "B", ZOf(50010000), 100000000)),
    SignalsAfter(NewSignals, TradeRun(1, 2, "B", ZOf(50010000), 1000000000)),
    SignalsAfter(NewSignals, BullTrap(1000000)),
    SignalsAfter(NewSignals, BearTrap(1000000)),
    SignalsAfter(NewSignals, BullTrap(1000000000)),
    SignalsAfter(NewSignals,
                 <<RunTrade(1, "B", ZOf(50010000), 100000000, 0),
                   RunTrade(2, "B", ZOf(50010000), 100000000, 600000000)>>) }

\* the positions setPosition is called with
QuotePositions == {ZOf(-50), Z0, ZOf(50)}

\* the updates strategy.update is called with: a trade 100 s after the
\* window's first, seen on time or 600 ms late
QuoteUpdates ==
  { RunTrade(100, "A", ZOf(50010000), 1000000000, 0),
    RunTrade(100, "A", ZOf(50010000), 1000000000, 600000000) }

InitQuotes ==
  /\ RingConstructed("RingBuffer.hpp")
  /\ ppc = "idle" /\ p_item = NoItem /\ current_head = 0 /\ next_head = 0
  /\ p_ret = FALSE
  /\ cpc = "idle" /\ current_tail = 0 /\ out_item = NoItem /\ c_ret = FALSE
  /\ pushed = <<>> /\ popped = <<>>
  /\ pushCalls = 0 /\ popCalls = 0 /\ pushFails = 0
  /\ serial = TRUE
  /\ RecorderIdle
  /\ displayBook = [bids |-> <<>>, asks |-> <<>>]
  /\ book \in QuoteBooks
  /\ signals \in QuoteSignals
  /\ currentPosition \in QuotePositions
  /\ orders = <<>>
  /\ orderIdCounter = 0
  /\ position = D0
  /\ entryPrice = D0
  /\ balance = initialBalance
  /\ lastDashboardPrint = 0
  /\ terminated = FALSE
  /\ events = 0
  /\ executed = <<>>
  /\ tradePrint = <<>>
  /\ journal = <<>>
  /\ DbUnavailable

\* strategy.getQuotes(): a const member function; executed holds what the
\* calls returned since the strategy's state was last written, oldest first
GetQuotesCall ==
  /\ events < MaxQuoteCalls
  /\ events' = events + 1
  /\ executed' = Append(executed,
                        getQuotes(book, signals, currentPosition))
  /\ UNCHANGED <<displayBook, book, signals, currentPosition, orders,
                 orderIdCounter, position, entryPrice, balance,
                 lastDashboardPrint, terminated, tradePrint, journal,
                 dbReady, db>>
  /\ UNCHANGED <<ringVars, recVars>>

\* strategy.setPosition(pos)
SetPositionCall(pos) ==
  /\ events < MaxQuoteCalls
  /\ events' = events + 1
  /\ currentPosition' = pos
  /\ executed' = <<>>
  /\ UNCHANGED <<displayBook, book, signals, orders, orderIdCounter,
                 position, entryPrice, balance, lastDashboardPrint,
                 terminated, tradePrint, journal,
                 dbReady, db>>
  /\ UNCHANGED <<ringVars, recVars>>

\* strategy.update(mu)
UpdateCall(mu) ==
  /\ events < MaxQuoteCalls
  /\ events' = events + 1
  /\ LET Updated(u) == book' = u[1] /\ signals' = u[2]
     IN  Updated(StrategyUpdate(book, signals, mu))
  /\ executed' = <<>>
  /\ UNCHANGED <<displayBook, currentPosition, orders, orderIdCounter,
                 position, entryPrice, balance, lastDashboardPrint,
                 terminated, tradePrint, journal,
                 dbReady, db>>
  /\ UNCHANGED <<ringVars, recVars>>

NextQuotes ==
  \/ GetQuotesCall
  \/ \E pos \in QuotePositions : SetPositionCall(pos)
  \/ \E mu \in QuoteUpdates : UpdateCall(mu)

SpecQuotes == InitQuotes /\ [][NextQuotes]_vars

(***************************************************************************)
(* SignalEngine::getTrapSignal on windows that addEvent built.             *)
(***************************************************************************)
\* a LiveEngine right after construction, but for strategy.signals and
\* strategy.book
EngineAround ==
  /\ RingConstructed("RingBuffer.hpp")
  /\ ppc = "idle" /\ p_item = NoItem /\ current_head = 0 /\ next_head = 0
  /\ p_ret = FALSE
  /\ cpc = "idle" /\ current_tail = 0 /\ out_item = NoItem /\ c_ret = FALSE
  /\ pushed = <<>> /\ popped = <<>>
  /\ pushCalls = 0 /\ popCalls = 0 /\ pushFails = 0
  /\ serial = TRUE
  /\ RecorderIdle
  /\ displayBook = [bids |-> <<>>, asks |-> <<>>]
  /\ currentPosition = Z0
  /\ orders = <<>>
  /\ orderIdCounter = 0
  /\ position = D0
  /\ entryPrice = D0
  /\ balance = initialBalance
  /\ lastDashboardPrint = 0
  /\ terminated = FALSE
  /\ events = 0
  /\ executed = <<>>
  /\ tradePrint = <<>>
  /\ journal = <<>>
  /\ DbUnavailable

\* the engine after WINDOW_SIZE + 7 taker buys of 1.0, one per millisecond:
\* the oldest retained one, in slot 7, at 0.5100 and the others at 0.5092
HighThenFlat ==
  [history |-> [h \in 0 .. WINDOW_SIZE - 1 |->
                  [price |-> IF h = 7 THEN ZOf(51000000) ELSE ZOf(50920000),
                   size |-> ZOf(100000000), side |-> "B",
                   timestamp |->
                     ZAdd(ZE(17, 17),
                          ZOf((((h + WINDOW_SIZE - 7) % WINDOW_SIZE) + 8)
                              * 1000000))]],
   head |-> 7, count |-> WINDOW_SIZE,
   runningBuyVol |-> ZE(1000, 8), runningSellVol |-> Z0,
   currentLatency |-> Z0, isStale |-> FALSE]

\* the windows: 49 buys at 0.5100; 49 sells at 0.5090; 48 buys at 0.5100;
\* 65 buys and 34 sells at 0.5100; 49 sells at 2^63 - 1024; the full window
TrapSignals ==
  { SignalsAfter(NewSignals, TradeRun(1, 49, "B", ZOf(51000000), 1000000)),
    SignalsAfter(NewSignals, TradeRun(1, 49, "A", ZOf(50900000), 1000000)),
    SignalsAfter(NewSignals, TradeRun(1, 48, "B", ZOf(51000000), 1000000)),
    SignalsAfter(NewSignals,
                 TradeRun(1, 65, "B", ZOf(51000000), 1000000)
                   \o TradeRun(66, 99, "A", ZOf(51000000), 1000000)),
    SignalsAfter(NewSignals, TradeRun(1, 49, "A", TopPrice, 1000000)),
    HighThenFlat }

\* the prices of the trades that follow: 0.5090, one E8 unit under
\* 0.5100 - 50000, 0.5090 + 50000 = 0.5100 - 50000, 0.5100, 2^63 - 1024
TrapPrices ==
  {ZOf(50900000), ZOf(50949999), ZOf(50950000), ZOf(51000000), TopPrice}

TrapEvents ==
  {RunTrade(2000, side, price, 1000000, 0) :
     side \in {"B", "A"}, price \in TrapPrices}

InitTrap ==
  /\ EngineAround
  /\ book = EmptyBook
  /\ signals \in TrapSignals

NextTrap == \E mu \in TrapEvents : SignalAddEvent(mu)

SpecTrap == InitTrap /\ [][NextTrap]_vars

(***************************************************************************)
(* SignalEngine::getTradeVelocity on windows that addEvent built.          *)
(***************************************************************************)
\* the exchange times of the trades that follow, in ns: t0 (2 s after the
\* first trade of HighThenFlat); 0.4 s after t0 less 1 ns; 0.4 s after t0;
\* 0.6 s after t0; 200 s after the second oldest trade of HighThenFlat,
\* and 1 ns before that
VelocityTimes ==
  { ZAdd(ZE(17, 17), ZE(2, 9)),
    ZAdd(ZE(17, 17), ZSub(ZE(24, 8), ZOf(1))),
    ZAdd(ZE(17, 17), ZE(24, 8)),
    ZAdd(ZE(17, 17), ZE(26, 8)),
    ZAdd(ZE(17, 17), ZE(200009, 6)),
    ZAdd(ZE(17, 17), ZSub(ZE(200009, 6), ZOf(1))) }

VelocityEvents ==
  [type : {"T"}, side : {"B"}, size : {ZOf(100000000)},
   price : {ZOf(50920000)},
   timestamp_exchange : VelocityTimes, timestamp_local : {ZE(18, 17)}]

InitVelocity ==
  /\ EngineAround
  /\ book = EmptyBook
  /\ signals \in {NewSignals, HighThenFlat}

NextVelocity == \E mu \in VelocityEvents : SignalAddEvent(mu)

SpecVelocity == InitVelocity /\ [][NextVelocity]_vars

(***************************************************************************)
(* SignalEngine::checkIntegrity on books that addOrder built.              *)
(***************************************************************************)
\* n levels of one side, all of one size
Levels(n, side, size) == [i \in 1 .. n |-> Level(side, ZOf(50000000), size)]

\* the books: empty; bids 4 x 0.1 and asks 5 x 0.1; first bid exactly 5.0;
\* a bid wall of 6.0 over asks of 0.4; a bid wall over asks of 1.0; an ask
\* wall over bids of 1.0; bids 5 x 0.09 and a sixth of 1.0 over asks of
\* 1.0; two bids of 2^62 E8 units each over asks of 1.0
IntegrityBooks ==
  { EmptyBook,
    BookAfter(EmptyBook, Levels(4, "B", ZOf(10000000))
                           \o Levels(5, "A", ZOf(10000000))),
    BookAfter(EmptyBook, Levels(1, "B", ZOf(500000000))
                           \o Levels(1, "A", ZOf(100000000))),
    BookAfter(EmptyBook, Levels(1, "B", ZOf(600000000))
                           \o Levels(1, "A", ZOf(40000000))),
    BookAfter(EmptyBook, Levels(1, "B", ZOf(600000000))
                           \o Levels(1, "A", ZOf(100000000))),
    BookAfter(EmptyBook, Levels(1, "B", ZOf(100000000))
                           \o Levels(1, "A", ZOf(600000000))),
    BookAfter(EmptyBook, Levels(5, "B", ZOf(9000000))
                           \o Levels(1, "B", ZOf(100000000))
                           \o Levels(1, "A", ZOf(100000000))),
    BookAfter(EmptyBook, Levels(2, "B", <<1, BigPow2(62)>>)
                           \o Levels(1, "A", ZOf(100000000))) }

\* the updates: an add of 0.1 or of 6.0 on either side, seen on time or
\* 600 ms late
IntegrityUpdates ==
  [type : {"A"}, side : {"B", "A"},
   size : {ZOf(10000000), ZOf(600000000)},
   price : {ZOf(50000000)},
   timestamp_exchange : {ZE(17, 17)},
   timestamp_local : {ZE(17, 17), ZAdd(ZE(17, 17), ZOf(600000000))}]

InitIntegrity ==
  /\ EngineAround
  /\ book \in IntegrityBooks
  /\ signals = NewSignals

NextIntegrity == \E mu \in IntegrityUpdates : UpdateCall(mu)

SpecIntegrity == InitIntegrity /\ [][NextIntegrity]_vars

(***************************************************************************)
(* LiveEngine::run on depth ticks that follow a burst of trades.           *)
(***************************************************************************)
\* the two trade lines the engine has read: a buy and a sell of 1.0, one
\* millisecond apart
BurstLines ==
  << <<W("TRADE"), TsTrade1, W("BUY"), Dec(5010, 4), Dec(10, 1)>>,
     <<W("TRADE"), TsTrade2, W("SELL"), Dec(4990, 4), Dec(10, 1)>> >>

\* the second std::time(nullptr) returned while they were read: the
\* earlier one of Clock
BurstClock == CHOOSE c \in Clock : \A d \in Clock : c <= d

\* strategy.book and strategy.signals after the two lines
BurstStrategy ==
  StrategyUpdate(
    StrategyUpdate(EmptyBook, NewSignals,
                   TradeUpdate(BurstLines[1], BurstClock))[1],
    StrategyUpdate(EmptyBook, NewSignals,
                   TradeUpdate(BurstLines[1], BurstClock))[2],
    TradeUpdate(BurstLines[2], BurstClock))

\* the lines that follow: thin books leaning to the bid side and to the ask
\* side, a deep book, and two trades
TakerLines == {
  <<W("DEPTH"), TsTrade2,
    DepthList(<< <<Dec(5000, 4), Dec(3, 1)>> >>),
    DepthList(<< <<Dec(5002, 4), Dec(1, 1)>> >>)>>,
  <<W("DEPTH"), TsTrade2,
    DepthList(<< <<Dec(5000, 4), Dec(1, 1)>> >>),
    DepthList(<< <<Dec(5002, 4), Dec(3, 1)>> >>)>>,
  <<W("DEPTH"), TsTrade2,
    DepthList(<< <<Dec(5000, 4), Dec(1000, 1)>> >>),
    DepthList(<< <<Dec(5002, 4), Dec(1000, 1)>> >>)>>,
  <<W("TRADE"), TsTrade2, W("BUY"), Dec(5010, 4), Dec(10, 1)>>,
  <<W("TRADE"), TsTrade2, W("SELL"), Dec(4990, 4), Dec(10, 1)>> }

\* the engine after BurstLines from construction: no order was there to
\* fill, the trades are in the strategy's book and window; events counts
\* the lines read from here on
InitTaker ==
  /\ RingConstructed("RingBuffer.hpp")
  /\ ppc = "idle" /\ p_item = NoItem /\ current_head = 0 /\ next_head = 0
  /\ p_ret = FALSE
  /\ cpc = "idle" /\ current_tail = 0 /\ out_item = NoItem /\ c_ret = FALSE
  /\ pushed = <<>> /\ popped = <<>>
  /\ pushCalls = 0 /\ popCalls = 0 /\ pushFails = 0
  /\ serial = TRUE
  /\ RecorderIdle
  /\ displayBook = [bids |-> <<>>, asks |-> <<>>]
  /\ book = BurstStrategy[1]
  /\ signals = BurstStrategy[2]
  /\ currentPosition = Z0
  /\ orders = <<>>
  /\ orderIdCounter = 0
  /\ position = D0
  /\ entryPrice = D0
  /\ balance = initialBalance
  /\ lastDashboardPrint = BurstClock
  /\ terminated = FALSE
  /\ events = 0
  /\ executed = <<>>
  /\ tradePrint = <<Stod(BurstLines[2][4])>>
  /\ journal = <<>>
  /\ DbUnavailable

NextTaker ==
  \/ \E parts \in TakerLines, now \in Clock : DepthLine(parts, now)
  \/ \E parts \in TakerLines, now \in Clock : TradeLine(parts, now)

SpecTaker == InitTaker /\ [][NextTaker]_vars

(***************************************************************************)
(* The order list and the account of LiveEngine on their own: placeOrder   *)
(* as executeQuotes calls it, and checkFills as parseLine calls it.        *)
(***************************************************************************)
\* number of placeOrder and checkFills calls
MaxFillCalls == 4

\* the orders placed: [side, price, quantity]
FillOrders ==
  { [side |-> "B", price |-> DblLit(5000, 4), quantity |-> DblOfInt(50)],
    [side |-> "B", price |-> DblLit(5100, 4), quantity |-> DblOfInt(100)],
    [side |-> "A", price |-> DblLit(5100, 4), quantity |-> DblOfInt(50)],
    [side |-> "A", price |-> DblLit(5000, 4), quantity |-> DblOfInt(100)] }

\* the trade prints
FillPrints == {DblLit(5000, 4), DblLit(5050, 4), DblLit(5100, 4)}

InitFills == InitEngine

\* placeOrder(o.side, o.price, o.quantity, false, "RANGE_MM")
PlaceOrderCall(o) ==
  /\ events < MaxFillCalls
  /\ events' = events + 1
  /\ LET Placed(r) == orders' = r[1] /\ orderIdCounter' = r[2]
     IN  Placed(placeOrder(orders, orderIdCounter, o.side, o.price,
                           o.quantity, FALSE, "RANGE_MM", 1700000000))
  /\ tradePrint' = <<>>
  /\ UNCHANGED <<displayBook, book, signals, currentPosition, position,
                 entryPrice, balance, lastDashboardPrint, terminated,
                 executed, journal,
                 dbReady, db>>
  /\ UNCHANGED <<ringVars, recVars>>

\* checkFills(tradePrice, ts)
CheckFillsCall(tradePrice) ==
  /\ events < MaxFillCalls
  /\ events' = events + 1
  /\ LET Checked(f) == /\ orders' = f[1]
                       /\ position' = f[2].acct.position
                       /\ entryPrice' = f[2].acct.entryPrice
                       /\ balance' = f[2].acct.balance
                       /\ db' = f[2].db
     IN  \E oks \in FillWrites(orders, tradePrice, dbReady) :
           Checked(checkFillsLogged(orders, 1, [acct |-> Account, db |-> db],
                                    tradePrice, dbReady, signals, oks))
  /\ tradePrint' = <<tradePrice>>
  /\ journal' = journal \o logTrades(orders, 1, Account, tradePrice)
  /\ UNCHANGED <<displayBook, book, signals, currentPosition,
                 orderIdCounter, lastDashboardPrint, terminated, executed,
                 dbReady>>
  /\ UNCHANGED <<ringVars, recVars>>

NextFills ==
  \/ \E o \in FillOrders : PlaceOrderCall(o)
  \/ \E tradePrice \in FillPrints : CheckFillsCall(tradePrice)

SpecFills == InitFills /\ [][NextFills]_vars

(***************************************************************************)
(* The same calls with orders sized as executeQuotes sizes them,           *)
(* minOrderValue / price, at two price levels.                             *)
(***************************************************************************)
\* the orders placed: 62.5 units at 0.4000 and 50 units at 0.5000
FlipOrders ==
  { [side |-> sd, price |-> px, quantity |-> DblDiv(minOrderValue, px)] :
      sd \in {"B", "A"}, px \in {DblLit(4000, 4), DblLit(5000, 4)} }

\* the trade prints
FlipPrints == {DblLit(4000, 4), DblLit(4500, 4), DblLit(5000, 4)}

InitFlip == InitEngine

NextFlip ==
  \/ \E o \in FlipOrders : PlaceOrderCall(o)
  \/ \E tradePrice \in FlipPrints : CheckFillsCall(tradePrice)

SpecFlip == InitFlip /\ [][NextFlip]_vars

(***************************************************************************)
(* Harness for the trade journal: the engine after two placeOrder calls,   *)
(* with the database opened or not, then placeOrder and checkFills calls.  *)
(***************************************************************************)
\* the resting orders: a bid at 0.5000 and an ask at 0.5100
JournalOrders ==
  { <<[side |-> "B", price |-> DblLit(5000, 4), quantity |-> DblOfInt(50)],
      [side |-> "A", price |-> DblLit(5100, 4), quantity |-> DblOfInt(50)]>> }

\* placeOrder(o.side, o.price, o.quantity, false, "RANGE_MM") for each
\* order of os, in order
RECURSIVE PlacedAll(_, _, _)
PlacedAll(os, ords, ctr) ==
  IF os = <<>> THEN <<ords, ctr>>
  ELSE LET r == placeOrder(ords, ctr, Head(os).side, Head(os).price,
                           Head(os).quantity, FALSE, "RANGE_MM", 1700000000)
       IN  PlacedAll(Tail(os), r[1], r[2])

InitJournal ==
  /\ RingConstructed("RingBuffer.hpp")
  /\ ppc = "idle" /\ p_item = NoItem /\ current_head = 0 /\ next_head = 0
  /\ p_ret = FALSE
  /\ cpc = "idle" /\ current_tail = 0 /\ out_item = NoItem /\ c_ret = FALSE
  /\ pushed = <<>> /\ popped = <<>>
  /\ pushCalls = 0 /\ popCalls = 0 /\ pushFails = 0
  /\ serial = TRUE
  /\ RecorderIdle
  /\ displayBook = [bids |-> <<>>, asks |-> <<>>]
  /\ book = EmptyBook
  /\ signals = NewSignals
  /\ currentPosition = Z0
  /\ \E os \in JournalOrders :
       /\ orders = PlacedAll(os, <<>>, 0)[1]
       /\ orderIdCounter = PlacedAll(os, <<>>, 0)[2]
       /\ events = Len(os)
  /\ position = D0
  /\ entryPrice = D0
  /\ balance = initialBalance
  /\ lastDashboardPrint = 0
  /\ terminated = FALSE
  /\ executed = <<>>
  /\ tradePrint = <<>>
  /\ journal = <<>>
  /\ initDB

SpecJournal == InitJournal /\ [][NextFills]_vars

(***************************************************************************)
(* executeQuotes and checkFills on the order list: the Quotes are ones     *)
(* getQuotes returns, the display book is one onDepth leaves.              *)
(***************************************************************************)
\* number of executeQuotes and checkFills calls
MaxExecCalls == 3

\* the display books: empty; bid 0.5000 and ask 0.5002; bid 0.5000 and an
\* ask priced 0
ExecBooks ==
  { [bids |-> <<>>, asks |-> <<>>],
    [bids |-> <<[price |-> DblLit(5000, 4), qty |-> DblOfInt(100)]>>,
     asks |-> <<[price |-> DblLit(5002, 4), qty |-> DblOfInt(100)]>>],
    [bids |-> <<[price |-> DblLit(5000, 4), qty |-> DblOfInt(100)]>>,
     asks |-> <<[price |-> D0, qty |-> DblOfInt(100)]>>] }

\* the Quotes executed: RANGE_MM around 0.5001 and around 0.5002, RANGE_MM
\* as the cross check rebuilds it (a negative bid), the short wick catcher,
\* WAIT, and the two taker intents
ExecQuotes ==
  { RangeMM(ZOf(49990000), ZOf(50030000)),
    RangeMM(ZOf(50000000), ZOf(50040000)),
    RangeMM(ZOf(-21024), ZOf(18976)),
    [WaitQuotes EXCEPT !.askPx = ZOf(50030000), !.askActive = TRUE,
                       !.reason = "WICK_CATCHER_SHORT"],
    WaitQuotes,
    [WaitQuotes EXCEPT !.isTaker = TRUE, !.takerSide = "B",
                       !.takerQty = ZOf(100000000),
                       !.reason = "ROCKET_SURFER_BUY"],
    [WaitQuotes EXCEPT !.isTaker = TRUE, !.takerSide = "S",
                       !.takerQty = ZOf(100000000),
                       !.reason = "ROCKET_SURFER_SELL"] }

\* the trade prints
ExecPrints == {DblLit(4995, 4), DblLit(5002, 4), DblLit(5035, 4)}

InitExec ==
  /\ RingConstructed("RingBuffer.hpp")
  /\ ppc = "idle" /\ p_item = NoItem /\ current_head = 0 /\ next_head = 0
  /\ p_ret = FALSE
  /\ cpc = "idle" /\ current_tail = 0 /\ out_item = NoItem /\ c_ret = FALSE
  /\ pushed = <<>> /\ popped = <<>>
  /\ pushCalls = 0 /\ popCalls = 0 /\ pushFails = 0
  /\ serial = TRUE
  /\ RecorderIdle
  /\ displayBook \in ExecBooks
  /\ book = EmptyBook
  /\ signals = NewSignals
  /\ currentPosition = Z0
  /\ orders = <<>>
  /\ orderIdCounter = 0
  /\ position = D0
  /\ entryPrice = D0
  /\ balance = initialBalance
  /\ lastDashboardPrint = 0
  /\ terminated = FALSE
  /\ events = 0
  /\ executed = <<>>
  /\ tradePrint = <<>>
  /\ journal = <<>>
  /\ DbUnavailable

\* executeQuotes(q); executed holds q
ExecuteQuotesCall(q) ==
  /\ events < MaxExecCalls
  /\ events' = events + 1
  /\ LET Left(r) == orders' = r[1] /\ orderIdCounter' = r[2]
     IN  Left(executeQuotes(orders, orderIdCounter, displayBook, q,
                            1700000000))
  /\ executed' = <<q>>
  /\ tradePrint' = <<>>
  /\ UNCHANGED <<displayBook, book, signals, currentPosition, position,
                 entryPrice, balance, lastDashboardPrint, terminated,
                 journal, dbReady, db>>
  /\ UNCHANGED <<ringVars, recVars>>

\* checkFills(tradePrice, ts) between two executeQuotes calls
ExecCheckFillsCall(tradePrice) ==
  /\ events < MaxExecCalls
  /\ events' = events + 1
  /\ LET Checked(f) == /\ orders' = f[1]
                       /\ position' = f[2].acct.position
                       /\ entryPrice' = f[2].acct.entryPrice
                       /\ balance' = f[2].acct.balance
                       /\ db' = f[2].db
     IN  \E oks \in FillWrites(orders, tradePrice, dbReady) :
           Checked(checkFillsLogged(orders, 1, [acct |-> Account, db |-> db],
                                    tradePrice, dbReady, signals, oks))
  /\ tradePrint' = <<tradePrice>>
  /\ journal' = journal \o logTrades(orders, 1, Account, tradePrice)
  /\ executed' = <<>>
  /\ UNCHANGED <<displayBook, book, signals, currentPosition,
                 orderIdCounter, lastDashboardPrint, terminated, dbReady>>
  /\ UNCHANGED <<ringVars, recVars>>

NextExec ==
  \/ \E q \in ExecQuotes : ExecuteQuotesCall(q)
  \/ \E tradePrice \in ExecPrints : ExecCheckFillsCall(tradePrice)

SpecExec == InitExec /\ [][NextExec]_vars

(***************************************************************************)
(* Harness for the liquidation heatmap: the recorder in visual mode, its   *)
(* consumer handling one popped message after another.                     *)
(***************************************************************************)
\* number of messages handled
MaxHeatCalls == 4

\* the input lines whose messages are handled: a taker sell at 2.0000, a
\* liquidation at 2.08, taker buys at 2.0000 and at 0.3000, a ticker
HeatLines == {
  <<W("TRADE"), TsField, W("WLDUSDT"), W("SELL"), Dec(20000, 4), Dec(10, 1)>>,
  <<W("LIQ"), TsField, W("WLDUSDT"), W("Sell"), Dec(208, 2), Dec(10, 1)>>,
  <<W("TRADE"), TsField, W("WLDUSDT"), W("BUY"), Dec(20000, 4), Dec(10, 1)>>,
  <<W("TRADE"), TsField, W("WLDUSDT"), W("BUY"), Dec(3000, 4), Dec(10, 1)>>,
  <<W("TICKER"), TsField, W("WLDUSDT"), Dec(2323223, 2), Dec(1, 4),
    Dec(20001, 4)>> }

InitHeat ==
  /\ RingConstructed("recorder.cpp")
  /\ ppc = "idle" /\ p_item = NoItem /\ current_head = 0 /\ next_head = 0
  /\ p_ret = FALSE
  /\ cpc = "idle" /\ current_tail = 0 /\ out_item = NoItem /\ c_ret = FALSE
  /\ pushed = <<>> /\ popped = <<>>
  /\ pushCalls = 0 /\ popCalls = 0 /\ pushFails = 0
  /\ serial = TRUE
  /\ MODE_HEADLESS = FALSE /\ MODE_VISUAL = TRUE
  /\ running = TRUE
  /\ linesRead = 0
  /\ fileOpen = FALSE /\ bufPos = 0 /\ wbuf = <<>> /\ fileData = <<>>
  /\ liquidationMap = <<>>
  /\ ticker = <<Z0, Z0, Z0>>
  /\ lastTradePrice = D0
  /\ EngineConstructed
  /\ DbUnavailable

\* the consumer popped msg and, in visual mode, hands it to visualEngine
\* (recorder.cpp, "if (MODE_VISUAL)" of the consumer loop)
VisualConsume(msg) ==
  /\ popCalls < MaxHeatCalls
  /\ popCalls' = popCalls + 1
  /\ out_item' = msg
  /\ c_ret' = TRUE
  /\ popped' = Append(popped, msg)
  /\ VisualUpdate(msg)
  /\ cpc' = "pop_load_tail"
  /\ UNCHANGED <<ringKind, buffer, head, tail, ppc, p_item, current_head,
                 next_head, p_ret, current_tail, pushed, pushCalls,
                 pushFails, serial>>
  /\ UNCHANGED <<MODE_HEADLESS, MODE_VISUAL, running, linesRead, fileOpen,
                 bufPos, wbuf, fileData>>
  /\ UNCHANGED engVars

NextHeat ==
  \E parts \in HeatLines : VisualConsume(ParseInputLine(parts, TRUE, Z0)[2])

SpecHeat == InitHeat /\ [][NextHeat]_vars

(***************************************************************************)
(* Claims about the ring buffers (SpecRing).                               *)
(***************************************************************************)
IsPrefix(s, t) == Len(s) <= Len(t) /\ s = SubSeq(t, 1, Len(s))

\* the ring holds no item: RingBuffer::size() = 0
RingEmpty == head = tail
\* the next push finds the ring full
RingFull == NextIndex(head, N) = tail

\* C1: in every interleaving of one producer calling push and one consumer
\* calling pop, the items returned by successful pops are a prefix of the
\* items accepted by successful pushes (same order, none twice, none that
\* was not pushed).
C1_PoppedIsPrefixOfPushed == IsPrefix(popped, pushed)

\* C1 witness: the consumer has delivered three items, the indices have
\* wrapped around the buffer, and a push is writing a slot at that moment.
C1_Witness ==
  /\ popped = <<1, 2, 1>>
  /\ ppc = "push_write"
  /\ cpc = "pop_ret" /\ c_ret = TRUE
  /\ Len(popped) >= N

\* C2: starting from an empty ring instantiated with template argument
\* RingParam, any N <= RingParam pushes all return true, and the N pops
\* that follow them return exactly the pushed items in push order.
C2_PushesUpToParameterSucceed ==
  (serial /\ pushCalls <= RingParam /\ ppc = "idle" /\ cpc = "idle")
    => /\ pushFails = 0
       /\ Len(pushed) = pushCalls
       /\ popCalls <= pushCalls => popped = SubSeq(pushed, 1, popCalls)

\* C3: when the producer's input has closed and running is false, the
\* consumer leaves its loop only with the ring empty: every event the
\* producer pushed successfully has been popped when consumerThreadFunc ends.
C3_ConsumerExitsWithRingEmpty ==
  cpc = "thread_end" => (RingEmpty /\ popped = pushed)

\* C4: in headless mode, at the moment consumerThreadFunc ends the writer's
\* pending buffer is empty (bufPos = 0): every record handed to
\* FileWriter::write while the file was open is in the file.
C4_WriterFlushedAtThreadEnd ==
  (MODE_HEADLESS /\ cpc = "thread_end") => (bufPos = 0 /\ wbuf = <<>>)

\* C5: a push that finds the ring full returns false and a pop that finds
\* it empty returns false; the steps of such a call change neither head,
\* tail nor any buffer slot, a failing pop does not write its output item,
\* and the producer is then ready for its next call (it does not block).
C5_FailedCallsChangeNothing ==
  [][ /\ (ppc = "push_load_tail" /\ ppc' # ppc /\ RingFull)
         => (ppc' = "push_ret" /\ p_ret' = FALSE)
      /\ (ppc' = "push_ret" /\ ppc # ppc' /\ p_ret' = FALSE)
         => (UNCHANGED <<head, tail, buffer>> /\ current_head = head)
      /\ (ppc = "push_ret" /\ ppc' # ppc) => ppc' = "idle"
      /\ (cpc = "pop_load_head" /\ cpc' # cpc /\ RingEmpty)
         => (cpc' = "pop_ret" /\ c_ret' = FALSE)
      /\ (cpc' = "pop_ret" /\ cpc # cpc' /\ c_ret' = FALSE)
         => (UNCHANGED <<head, tail, buffer, out_item>>
             /\ current_tail = tail)
    ]_vars

\* C5 witness: a push has just returned false on a full ring while a pop
\* of an earlier moment returned false on the empty ring.
C5_Witness ==
  /\ ppc = "push_ret" /\ p_ret = FALSE /\ RingFull
  /\ c_ret = FALSE /\ popCalls > 0 /\ popped = <<>>

(***************************************************************************)
(* Claims about the strategy and the engine (SpecEngine, SpecSignal).      *)
(***************************************************************************)
\* the quote of the latency guard: no side active, no taker order
IsGuardQuote(q) ==
  /\ q.reason = "SAFETY_LATENCY_GUARD"
  /\ ~q.bidActive /\ ~q.askActive /\ ~q.isTaker

\* C6: whenever the signal engine's staleness flag is set, getQuotes
\* returns reason SAFETY_LATENCY_GUARD with bidActive = false, askActive =
\* false and isTaker = false, whatever the book, the trade window and the
\* position are; so does the call updateStrategy has just made.
C6_StaleQuotesAreGuarded ==
  isSignalStale(signals) =>
    /\ \A pos \in QuotePositions \cup {currentPosition} :
         IsGuardQuote(getQuotes(book, signals, pos))
    /\ executed # <<>> => IsGuardQuote(executed[1])

\* C6 witness: the flag is set, the book has both sides (without the guard
\* the strategy would quote), and updateStrategy has asked for quotes.
C6_Witness ==
  /\ isSignalStale(signals)
  /\ executed # <<>>
  /\ getMicroPrice(book) # Z0
  /\ orders # <<>>

\* C7: after executeQuotes has processed a non-taker quote in which a side
\* is inactive (WAIT and SAFETY_LATENCY_GUARD included), no active
\* non-exit order remains on that side.
C7_InactiveSideHasNoActiveOrder ==
  (executed # <<>> /\ ~executed[1].isTaker) =>
    /\ ~executed[1].bidActive
         => \A i \in 1 .. Len(orders) : ~Managed(orders[i], "B")
    /\ ~executed[1].askActive
         => \A i \in 1 .. Len(orders) : ~Managed(orders[i], "A")

\* C8: after any sequence of addEvent calls with non-negative sizes, the
\* value getVPIN returns lies between -10^8 and 10^8 in the code's 64-bit
\* signed arithmetic.
C8_VPINWithinScale ==
  ZLe(ZAbs(getVPIN(signals)), ZOf(PRICE_SCALE))

\* C9: in every book state the bid side is in descending and the ask side
\* in ascending price order, after any sequence of addOrder calls and after
\* the engine has rebuilt the book from any DEPTH line.
C9_BookSidesSorted ==
  /\ \A i \in 1 .. Len(book.bids) - 1 :
       ZGe(book.bids[i].price, book.bids[i + 1].price)
  /\ \A i \in 1 .. Len(book.asks) - 1 :
       ZLe(book.asks[i].price, book.asks[i + 1].price)

\* C10: in every reachable book state with both sides non-empty the best
\* bid is strictly below the best ask (a crossed snapshot never becomes the
\* book).
C10_BestBidBelowBestAsk ==
  (book.bids # <<>> /\ book.asks # <<>>)
    => ZLt(book.bids[1].price, book.asks[1].price)

(***************************************************************************)
(* Claims about the order book's derived quantities (SpecBook).            *)
(***************************************************************************)
\* sum of the first (at most five) sizes of a side, in the integers
RECURSIVE Top5Sum(_, _)
Top5Sum(levels, i) ==
  IF i > Len(levels) \/ i > 5 THEN Z0
  ELSE ZAdd(levels[i].size, Top5Sum(levels, i + 1))

\* floor((bid_px * ask_vol + ask_px * bid_vol) / (bid_vol + ask_vol)) in
\* the integers, for non-negative prices and positive volumes
WeightedMid(bid, ask) ==
  ZDivT(ZAdd(ZMul(bid.price, ask.size), ZMul(ask.price, bid.size)),
        ZAdd(bid.size, ask.size))

\* m is the weighted mid of the two top levels and lies between them
IsBracketedMicro(m, bid, ask) ==
  /\ m = WeightedMid(bid, ask)
  /\ ZLe(bid.price, m)
  /\ ZLe(m, ask.price)

\* C11: for every book whose top bid and top ask both have positive
\* volume, getMicroPrice returns m with best_bid_price <= m <=
\* best_ask_price, equal to floor((bid_px * ask_vol + ask_px * bid_vol) /
\* (bid_vol + ask_vol)).
C11_MicroPriceBracketed ==
  (/\ book.bids # <<>> /\ book.asks # <<>>
   /\ ZGt(book.bids[1].size, Z0) /\ ZGt(book.asks[1].size, Z0))
    => IsBracketedMicro(getMicroPrice(book), book.bids[1], book.asks[1])

\* imb has the sign of diff and lies in [-10^8, +10^8]
IsSignedImbalance(imb, diff) ==
  /\ ZSign(imb) = ZSign(diff)
  /\ ZLe(ZAbs(imb), ZOf(PRICE_SCALE))

\* C12: for every book with both sides non-empty, getImbalance is
\* positive, negative or zero exactly when (sum of the top-5 bid sizes) -
\* (sum of the top-5 ask sizes) is, and it lies in [-10^8, +10^8].
C12_ImbalanceHasSignOfDifference ==
  (book.bids # <<>> /\ book.asks # <<>>)
    => IsSignedImbalance(getImbalance(book),
                         ZSub(Top5Sum(book.bids, 1), Top5Sum(book.asks, 1)))

(***************************************************************************)
(* Claims about the strategy's quotes (SpecQuotes).                        *)
(***************************************************************************)
\* the Quotes of the latest getQuotes call
LastQuotes == executed[Len(executed)]

SkewPositions ==
  QuotePositions
    \cup {INT64_MAX, ZSub(Z0, INT64_MAX), ZE(9, 16), ZSub(Z0, ZE(9, 16)),
          ZOf(-211), ZOf(-210), ZOf(189), ZOf(190)}

\* C14: whenever getQuotes returns both sides active, the bid price is
\* strictly below the ask price, for every micro-price and every position.
C14_ActiveQuotesNotCrossed ==
  /\ \A i \in DOMAIN executed :
        (executed[i].bidActive /\ executed[i].askActive)
          => ZLt(executed[i].bidPx, executed[i].askPx)
  /\ LET Uncrossed(q) ==
           (q.bidActive /\ q.askActive) => ZLt(q.bidPx, q.askPx)
         Sweep(micro, regime, trap, imbalance) ==
           \A pos \in SkewPositions :
             Uncrossed(QuotesIn(micro, regime, trap, imbalance, pos))
         Swept(micro, trap) ==
           Sweep(micro,
                 Regime(getTradeVelocity(signals),
                        checkIntegrity(signals, book), trap),
                 trap, getImbalance(book))
     IN  \/ isSignalStale(signals)
         \/ getMicroPrice(book) = Z0
         \/ Swept(getMicroPrice(book), getTrapSignal(signals))

\* a call whose first prices crossed (the ask wrapped around) and were
\* rebuilt around their mid
C14_Witness ==
  /\ executed # <<>>
  /\ book.bids # <<>> /\ book.bids[1].price = TopPrice
  /\ LastQuotes.bidActive /\ LastQuotes.askActive
  /\ LastQuotes.bidPx = ZOf(-21024)
  /\ LastQuotes.askPx = ZOf(18976)

\* the call was let past the latency guard and found a micro-price
QuotesLive ==
  /\ executed # <<>>
  /\ ~isSignalStale(signals)
  /\ getMicroPrice(book) # Z0

\* velocity > 5 and the book is in a liquidity vacuum
InRocketRegime ==
  /\ DblGt(getTradeVelocity(signals), DblOfInt(5))
  /\ checkIntegrity(signals, book) = "VACUUM_DETECTED"

\* velocity > 5 and the book is not in a liquidity vacuum
InWickRegime ==
  /\ DblGt(getTradeVelocity(signals), DblOfInt(5))
  /\ checkIntegrity(signals, book) # "VACUUM_DETECTED"

\* q is the taker intent of the given side and reason, no side quoted
IsTakerIntent(q, side, reason) ==
  /\ q.isTaker
  /\ q.takerSide = side
  /\ q.takerQty = ZOf(100000000)
  /\ q.reason = reason
  /\ ~q.bidActive
  /\ ~q.askActive

IsAskOnly(q, askPx, reason) ==
  /\ q.reason = reason
  /\ q.askActive /\ ~q.bidActive
  /\ q.askPx = askPx
  /\ ~q.isTaker

\* q quotes the bid alone
IsBidOnly(q, bidPx, reason) ==
  /\ q.reason = reason
  /\ q.bidActive /\ ~q.askActive
  /\ q.bidPx = bidPx
  /\ ~q.isTaker

InRangeCase ==
  \/ ~DblGt(getTradeVelocity(signals), DblOfInt(5))
  \/ InRocketRegime /\ ZLe(ZAbs(getImbalance(book)), ZOf(30000000))
  \/ InWickRegime /\ getTrapSignal(signals) = 0

\* q is RANGE_MM around micro, skewed by the position
IsRangeMM(q, micro, pos) ==
  /\ q.reason = "RANGE_MM"
  /\ q.bidActive /\ q.askActive
  /\ ~q.isTaker
  /\ q.bidPx = Sub64(Sub64(micro, ZOf(20000)), Mul64(pos, ZOf(100)))
  /\ q.askPx = Sub64(Add64(micro, ZOf(20000)), Mul64(pos, ZOf(100)))
  /\ ZSub(q.askPx, q.bidPx) = ZOf(40000)

\* C20: every other live case returns RANGE_MM with both sides active,
\* bid = micro - 20000 - position * 100 and ask = micro + 20000 -
\* position * 100, 40000 apart.
C20_RangeQuotesAroundMicro ==
  (QuotesLive /\ InRangeCase)
    => IsRangeMM(LastQuotes, getMicroPrice(book), currentPosition)

(***************************************************************************)
(* Claims about fills and the account (SpecFills, SpecEngine).             *)
(***************************************************************************)
\* a print at P reaches order o
Crosses(o, P) ==
  \/ (o.side = "B" /\ DblLe(P, o.price))
  \/ (o.side = "A" /\ DblGe(P, o.price))

\* the orders of ords a print at P fills, in list order
FilledAt(ords, P) == SelectSeq(ords, LAMBDA o : o.active /\ Crosses(o, P))

\* pos after the quantities of the orders fs[k..] were added (bids) or
\* taken off (asks), in order
RECURSIVE PositionAfter(_, _, _)
PositionAfter(pos, fs, k) ==
  IF k > Len(fs) THEN pos
  ELSE PositionAfter(IF fs[k].side = "B" THEN DblAdd(pos, fs[k].quantity)
                     ELSE DblSub(pos, fs[k].quantity),
                     fs, k + 1)

\* the step is a checkFills call
IsCheckFillsStep == events' # events /\ tradePrint' # <<>>

\* C15: checkFills at print P fills exactly the active orders with
\* (bid and P <= price) or (ask and P >= price): each becomes inactive and
\* is applied to the position once, in list order (one journal entry
\* each); every other order is left as it was.
C15_FillsExactlyCrossedOrders ==
  [][IsCheckFillsStep =>
       LET Fills(fs) ==
             /\ position' = PositionAfter(position, fs, 1)
             /\ Len(journal') = Len(journal) + Len(fs)
             /\ \A k \in DOMAIN fs :
                   /\ journal'[Len(journal) + k].price = fs[k].price
                   /\ journal'[Len(journal) + k].qty = fs[k].quantity
       IN  /\ Len(orders') = Len(orders)
           /\ \A i \in DOMAIN orders :
                 orders'[i] =
                   IF orders[i].active /\ Crosses(orders[i], tradePrint'[1])
                     THEN [orders[i] EXCEPT !.active = FALSE]
                     ELSE orders[i]
           /\ Fills(FilledAt(orders, tradePrint'[1]))]_vars

\* a print at 0.5000 has filled the bids at 0.5000 and 0.5100 and left
\* the ask at 0.5100 resting
C15_Witness ==
  /\ tradePrint = <<DblLit(5000, 4)>>
  /\ Len(orders) = 3
  /\ ~orders[1].active /\ orders[1].side = "B"
  /\ ~orders[2].active /\ orders[2].side = "B"
  /\ orders[3].active /\ orders[3].side = "A"
  /\ Len(journal) = 2
  /\ position = DblOfInt(150)

\* the account with entry (and position) zeroed when |position| < 10^-9
ZeroedWhenClosed(acct) ==
  IF DblLt(DblAbs(acct.position), DblLit(1, 9))
    THEN [acct EXCEPT !.position = D0, !.entryPrice = D0]
    ELSE acct

\* the four cases of a fill of size q at price p, as the spec lists them
FillCase(acct, side, q, p) ==
  IF side = "B" /\ DblGe(acct.position, D0)
    THEN [acct EXCEPT
            !.entryPrice =
              DblDiv(DblAdd(DblMul(acct.position, acct.entryPrice),
                            DblMul(q, p)),
                     DblAdd(acct.position, q)),
            !.position = DblAdd(acct.position, q)]
  ELSE IF side = "B"
    THEN ZeroedWhenClosed(
           [acct EXCEPT
              !.balance =
                DblAdd(acct.balance, DblMul(DblSub(acct.entryPrice, p), q)),
              !.position = DblAdd(acct.position, q)])
  ELSE IF DblLe(acct.position, D0)
    THEN [acct EXCEPT
            !.entryPrice =
              DblDiv(DblAdd(DblMul(DblAbs(acct.position), acct.entryPrice),
                            DblMul(q, p)),
                     DblAdd(DblAbs(acct.position), q)),
            !.position = DblSub(acct.position, q)]
  ELSE ZeroedWhenClosed(
         [acct EXCEPT
            !.balance =
              DblAdd(acct.balance, DblMul(DblSub(p, acct.entryPrice), q)),
            !.position = DblSub(acct.position, q)])

\* final is the account after the fills fs[k..], each by its case
RECURSIVE AccountReached(_, _, _, _)
AccountReached(acct, fs, k, final) ==
  IF k > Len(fs) THEN final = acct
  ELSE \E next \in {FillCase(acct, fs[k].side, fs[k].quantity,
                               fs[k].price)} :
         AccountReached(next, fs, k + 1, final)

\* every checkFills step moves the account by the four cases
FillsMoveAccountByCase ==
  IsCheckFillsStep =>
    \E before \in {Account}, fs \in {FilledAt(orders, tradePrint'[1])} :
      AccountReached(before, fs, 1,
                     [position |-> position', entryPrice |-> entryPrice',
                      balance |-> balance'])

\* from position 0, a 50-unit bid at 0.5000 was filled and then a 50-unit
\* ask at 0.5100, and nothing else
ExampleRoundTrip ==
  /\ Len(journal) = 2
  /\ journal[1].side = "BUY_LONG"
  /\ journal[1].price = DblLit(5000, 4)
  /\ journal[1].qty = DblOfInt(50)
  /\ journal[2].side = "SELL_CLOSE"
  /\ journal[2].price = DblLit(5100, 4)
  /\ journal[2].qty = DblOfInt(50)

\* the round trip ends flat with the balance up by gain
RoundTripGains(gain) ==
  ExampleRoundTrip =>
    /\ position = D0
    /\ entryPrice = D0
    /\ balance = DblAdd(initialBalance, gain)

\* C16: a fill of size q at price p moves the account by the four cases
\* (adding long, covering short, adding short, closing long; entry zeroed
\* when a reducing fill leaves |position| < 10^-9), and the round trip of
\* 50 units bought at 0.5000 and sold at 0.5100 from position 0 ends with
\* position 0, entry 0 and the balance up by 0.5 = (0.5100 - 0.5000) * 50.
C16_FillCasesAndRoundTrip ==
  [][FillsMoveAccountByCase]_vars /\ []RoundTripGains(DblLit(5, 1))

\* C16 as the spec words it: the same, with the balance up by 5.0
C16_RoundTripGainsFive ==
  [][FillsMoveAccountByCase]_vars /\ []RoundTripGains(DblOfInt(5))

\* the round trip has been made
C16_Witness ==
  /\ ExampleRoundTrip
  /\ tradePrint # <<>>
  /\ position = D0
  /\ balance = DblLit(10005, 1)

\* bal with the pnl of the journal entries j[k..] added, in order
RECURSIVE BalanceAfter(_, _, _)
BalanceAfter(bal, j, k) ==
  IF k > Len(j) THEN bal
  ELSE BalanceAfter(DblAdd(bal, j[k].pnl), j, k + 1)

\* C17: the balance is the initial balance plus the realized PnL of all
\* fills so far (the pnl passed to the journal, added in fill order in
\* double arithmetic), and whenever the position is closed (|position| <
\* 10^-9), position = 0 and entryPrice = 0.
C17_BalanceIsInitialPlusRealized ==
  /\ balance = BalanceAfter(initialBalance, journal, 1)
  /\ DblLt(DblAbs(position), DblLit(1, 9))
       => (position = D0 /\ entryPrice = D0)

\* fills have realized a PnL and the last one closed the position
C17_Witness ==
  /\ Len(journal) >= 2
  /\ journal[Len(journal)].pnl # D0
  /\ balance # initialBalance
  /\ position = D0
  /\ entryPrice = D0

\* a side of the book is empty, or both top-of-book volumes are zero
IsDegenerate(bk) ==
  \/ bk.bids = <<>>
  \/ bk.asks = <<>>
  \/ (bk.bids[1].size = Z0 /\ bk.asks[1].size = Z0)

\* C21: whenever the book is degenerate (a side empty, or both top
\* volumes zero) the micro-price is zero and a non-stale getQuotes returns
\* reason WAIT with both sides inactive and no taker intent.
C21_DegenerateBookWaits ==
  (executed # <<>> /\ ~isSignalStale(signals) /\ IsDegenerate(book))
    => /\ getMicroPrice(book) = Z0
       /\ LastQuotes.reason = "WAIT"
       /\ ~LastQuotes.bidActive
       /\ ~LastQuotes.askActive
       /\ ~LastQuotes.isTaker

(***************************************************************************)
(* Claims about order management (SpecExec).                               *)
(***************************************************************************)
\* the step is an executeQuotes call
IsExecuteStep == events' # events /\ executed' # <<>>

\* q is executed by the maker blocks of executeQuotes
IsMakerQuote(q) == q.reason # "SAFETY_LATENCY_GUARD" /\ ~q.isTaker

\* the active non-exit orders of a side
Resting(ords, side) ==
  {i \in DOMAIN ords :
     ords[i].active /\ ords[i].side = side /\ ~ords[i].isExit}

\* order o is within 10^-5 of the target price
NearTarget(o, target) ==
  DblLe(DblAbs(DblSub(o.price, target)), DblLit(1, 5))

\* after the step the side quoted at target holds a resting order at the
\* target and none elsewhere, one made by this step (25 / target units)
\* exactly when none was at the target before
SideOnTarget(side, target) ==
  /\ \E i \in Resting(orders', side) : NearTarget(orders'[i], target)
  /\ \A i \in Resting(orders', side) : NearTarget(orders'[i], target)
  /\ LET made == {i \in DOMAIN orders' :
                    i > Len(orders) /\ orders'[i].side = side}
     IN  /\ Cardinality(made) =
              IF \E i \in Resting(orders, side) :
                   NearTarget(orders[i], target)
                THEN 0 ELSE 1
         /\ \A i \in made :
               /\ orders'[i].price = target
               /\ orders'[i].quantity = DblDiv(DblOfInt(25), target)
               /\ orders'[i].active

IsTakerStep == IsExecuteStep /\ executed'[1].isTaker

\* the levels a taker intent is priced from: the asks for a buy, the bids
\* for a sell
OppositeLevels(q) ==
  IF q.takerSide = "B" THEN displayBook.asks ELSE displayBook.bids

\* the step appended one active non-exit order of 25 / p units at p, a bid
\* for a buy and an ask for a sell, and left the others as they were
OneTakerOrder(q, p) ==
  /\ Len(orders') = Len(orders) + 1
  /\ SubSeq(orders', 1, Len(orders)) = orders
  /\ LET o == orders'[Len(orders')]
     IN  /\ o.side = (IF q.takerSide = "B" THEN "B" ELSE "A")
         /\ o.price = p
         /\ o.quantity = DblDiv(DblOfInt(25), p)
         /\ o.active /\ ~o.isExit

\* an order placed for a taker intent
IsTakerOrder(o) == o.reason \in {"ROCKET_SURFER_BUY", "ROCKET_SURFER_SELL"}

\* a checkFills step fills every active taker order its print crosses and
\* leaves the other taker orders as they were
TakerOrdersFillOnCross ==
  IsCheckFillsStep =>
    \A i \in DOMAIN orders :
      (orders[i].active /\ IsTakerOrder(orders[i])) =>
        orders'[i] = IF Crosses(orders[i], tradePrint'[1])
                       THEN [orders[i] EXCEPT !.active = FALSE]
                       ELSE orders[i]

UnknownSymbol(parts) == Len(parts) >= 3 /\ parts[3] # W("WLDUSDT")

\* the price or the quantity of a TRADE or LIQ line is not a number
MalformedField(parts) ==
  /\ IsWord(parts[1], "TRADE") \/ IsWord(parts[1], "LIQ")
  /\ Len(parts) >= 6
  /\ ~IsNumber(parts[5]) \/ ~IsNumber(parts[6])

\* the first field is none of the four message types
UnknownType(parts) ==
  \A t \in {"TRADE", "DEPTH", "LIQ", "TICKER"} : ~IsWord(parts[1], t)

\* the line has fewer fields than its type requires
TooFewFields(parts) ==
  \/ IsWord(parts[1], "DEPTH") /\ Len(parts) < 5
  \/ /\ \E t \in {"TRADE", "LIQ", "TICKER"} : IsWord(parts[1], t)
     /\ Len(parts) < 6

\* the line is one the producer is to skip
IsBadLine(parts) ==
  \/ UnknownSymbol(parts)
  \/ MalformedField(parts)
  \/ UnknownType(parts)
  \/ TooFewFields(parts)

\* C24: a line with an unknown symbol, a non-numeric price or quantity, an
\* unknown message type or too few fields makes the producer push nothing
\* into the ring: no message the producer enters push with is the message
\* of such a line.
C24_BadLinesPushNothing ==
  [][(linesRead' # linesRead /\ ppc' = "push_load_head") =>
       \A parts \in RecLines, junk \in JunkValues :
         LET Pushes(r) == r[1] /\ r[2] = p_item'
         IN  IsBadLine(parts) =>
               ~Pushes(ParseInputLine(parts, MODE_VISUAL, junk))]_vars

C25_WitnessNoDb ==
  /\ ~dbReady
  /\ Len(journal) = 2
  /\ journal[2].pnl # D0
  /\ db = NoDb
  /\ balance # initialBalance

(***************************************************************************)
(* Claims about the liquidation heatmap (SpecHeat).                        *)
(***************************************************************************)
\* the step handles a message
IsHeatStep == popCalls' # popCalls

\* floor(pxE8 * percent / 100 / 10^5) * 10^5, for pxE8 >= 0
BucketOfPercent(pxE8, percent) ==
  ZMul(ZDivT(ZMul(pxE8, ZOf(percent)), ZE(1, 7)), ZE(1, 5))

\* the score of a bucket, 0 when the map has no such bucket
Score(map, bucket) == IF bucket \in DOMAIN map THEN map[bucket] ELSE Z0

\* map' is map with amount added at bucket and no other bucket changed
AddsAt(map, mapAfter, bucket, amount) ==
  /\ DOMAIN mapAfter = DOMAIN map \cup {bucket}
  /\ Score(mapAfter, bucket) = ZAdd(Score(map, bucket), amount)
  /\ \A b \in DOMAIN map \ {bucket} : mapAfter[b] = map[b]

\* C26: a trade at price p and size q adds q (E8) to exactly one bucket,
\* floor(p * 1.04 * 10^8 / 10^5) * 10^5 for a taker sell and
\* floor(p * 0.96 * 10^8 / 10^5) * 10^5 for a taker buy; a liquidation adds
\* 10 * q to the bucket of its own price; no other bucket changes.
C26_TradesScoreOneBucket ==
  [][IsHeatStep =>
       LET Scored(m) ==
             IF m.type = TYPE_TRADE
               THEN AddsAt(liquidationMap, liquidationMap',
                           BucketOfPercent(m.price,
                                           IF m.is_buyer_maker THEN 104
                                           ELSE 96),
                           m.qty)
             ELSE IF m.type = TYPE_LIQ
               THEN AddsAt(liquidationMap, liquidationMap',
                           BucketOfPercent(m.price, 100),
                           ZMul(m.qty, ZOf(10)))
             ELSE liquidationMap' = liquidationMap
       IN  Scored(out_item')]_vars

(***************************************************************************)
(* Claims about the E8 conversion (SpecRecorder).                          *)
(***************************************************************************)
\* the decimal text t times 10^8, digits past the 8th dropped
ExactE8(t) == DecScaled(t, 8)

\* C27: the E8 value of a decimal text with at most 8 fractional digits is
\* exactly the decimal times 10^8 (digits past the 8th are dropped): the
\* price and the quantity of every TRADE message the producer pushes are
\* the exact E8 values of the fields of its line.
C27_DecimalToE8IsExact ==
  [][(linesRead' # linesRead /\ ppc' = "push_load_head") =>
       \A parts \in RecLines :
         LET Pushes(r) == r[1] /\ r[2] = p_item'
         IN  (/\ IsWord(parts[1], "TRADE")
              /\ Len(parts) >= 6
              /\ IsNumber(parts[5]) /\ IsNumber(parts[6])
              /\ Pushes(ParseInputLine(parts, MODE_VISUAL, Z0)))
               => /\ p_item'.price = ExactE8(parts[5])
                  /\ p_item'.qty = ExactE8(parts[6])]_vars

(***************************************************************************)
(* Claims about the latency guard and the trade window (SpecSignal).       *)
(***************************************************************************)
\* the step is an addEvent call
IsAddEventStep == events' # events

\* C28: after every addEvent call, whatever the event's type, the latency
\* is the event's local minus its exchange timestamp and the stale flag is
\* set exactly when that exceeds 500,000,000 ns, whatever the flag was.
C28_LatencyFollowsEveryEvent ==
  [][IsAddEventStep =>
       \A mu \in SignalEvents :
         signals' = addEvent(signals, mu) =>
           LET Guarded(latency) ==
                 /\ signals'.currentLatency = latency
                 /\ signals'.isStale = ZGt(latency, ZOf(500000000))
           IN  Guarded(ZSub(mu.timestamp_local, mu.timestamp_exchange))]_vars

\* a non-trade event 500,000,001 ns late has raised the flag on an engine
\* that holds no trade
C28_Witness ==
  /\ events >= 1
  /\ signals.count = 0
  /\ signals.currentLatency = ZOf(500000001)
  /\ signals.isStale

\* an event exactly 500,000,000 ns late left the flag down after a trade
\* was recorded
C28_WitnessAtLimit ==
  /\ events >= 2
  /\ signals.count >= 1
  /\ signals.currentLatency = ZOf(500000000)
  /\ ~signals.isStale

(***************************************************************************)
(* Claims about staleness on DEPTH ticks (SpecEngine).                     *)
(***************************************************************************)
\* the step handles the DEPTH line parts at time now (seconds)
IsDepthStepOf(parts, now) ==
  /\ events' # events
  /\ executed' # <<>>
  /\ IsDepthLine(parts)
  /\ ~ParseLineThrows(parts)
  /\ IsNumber(parts[2])
  /\ displayBook' = onDepth(parts[3], parts[4])
  /\ lastDashboardPrint' = printDashboard(lastDashboardPrint, now)

\* C29: every processed input event, DEPTH as well as TRADE, updates the
\* signal engine's latency and staleness flag before the quotes are
\* computed: on a DEPTH tick the latency is that of the DEPTH event (its
\* arrival time minus its exchange timestamp) and the flag getQuotes
\* consults says whether that exceeds 500 ms.
C29_DepthTickRefreshesStaleness ==
  [][\A parts \in EngineLines, now \in Clock :
       IsDepthStepOf(parts, now) =>
         LET Refreshed(latency) ==
               /\ signals'.currentLatency = latency
               /\ signals'.isStale = ZGt(latency, ZOf(500000000))
               /\ signals'.isStale
                    => executed'[1].reason = "SAFETY_LATENCY_GUARD"
         IN  Refreshed(ZSub(ZMul(ZOf(now), ZE(1, 9)),
                            ZMul(Stoll(parts[2]), ZE(1, 6))))]_vars

\* the retained records, oldest first
Window(sg) ==
  [k \in 1 .. sg.count |->
     sg.history[(sg.head + WINDOW_SIZE - sg.count + k - 1) % WINDOW_SIZE]]

\* the int64_t sum of the sizes of the records w[lo..hi] that are buys
\* (buy) or are not (~buy)
RECURSIVE SumSide(_, _, _, _)
SumSide(w, lo, hi, buy) ==
  IF lo > hi THEN Z0
  ELSE IF lo = hi
    THEN (IF (w[lo].side = "B") = buy THEN w[lo].size ELSE Z0)
  ELSE CHOOSE sum \in {Add64(a, b) :
                          a \in {SumSide(w, lo, (lo + hi) \div 2, buy)},
                          b \in {SumSide(w, (lo + hi) \div 2 + 1, hi, buy)}} :
         TRUE

\* the totals are the sums over the retained records
TotalsMatchWindow ==
  LET Match(w) ==
        /\ signals.runningBuyVol = SumSide(w, 1, signals.count, TRUE)
        /\ signals.runningSellVol = SumSide(w, 1, signals.count, FALSE)
  IN  Match(Window(signals))

\* the last 1000 records of w followed by rec
Slid(w, rec) ==
  IF Len(w) < 1000 THEN Append(w, rec)
  ELSE Append(SubSeq(w, 2, Len(w)), rec)

\* an addEvent step of a trade appends its record to the window and drops
\* the oldest one past 1000; any other event leaves window, count and
\* totals as they were
WindowFollowsEvent ==
  IsAddEventStep =>
    \A mu \in WindowEvents :
      signals' = addEvent(signals, mu) =>
        IF mu.type = "T"
          THEN /\ signals'.count =
                    IF signals.count < 1000 THEN signals.count + 1 ELSE 1000
               /\ Window(signals') =
                    Slid(Window(signals),
                         [price |-> mu.price, size |-> mu.size,
                          side |-> mu.side,
                          timestamp |-> mu.timestamp_exchange])
          ELSE /\ signals'.history = signals.history
               /\ signals'.head = signals.head
               /\ signals'.count = signals.count
               /\ signals'.runningBuyVol = signals.runningBuyVol
               /\ signals'.runningSellVol = signals.runningSellVol

WindowPrices(sg) == {Window(sg)[k].price : k \in 1 .. sg.count}

\* the largest and the smallest of a non-empty set of prices
MaxOf(prices) == CHOOSE p \in prices : \A q \in prices : ZLe(q, p)
MinOf(prices) == CHOOSE p \in prices : \A q \in prices : ZLe(p, q)

\* the signal of the claim, for the last price, the retained prices and
\* the VPIN; the prices are compared as integers
TrapClaimed(lastPx, prices, vpin) ==
  IF ZGt(vpin, ZOf(30000000))
     /\ ZLt(lastPx, ZSub(MaxOf(prices), ZOf(50000)))
    THEN 1
  ELSE IF ZLt(vpin, ZOf(-30000000))
          /\ ZGt(lastPx, ZAdd(MinOf(prices), ZOf(50000)))
    THEN -1
  ELSE 0

\* C31: getTrapSignal returns 0 whenever the window holds fewer than 50
\* records; otherwise +1 exactly when VPIN > 3*10^7 and the last trade
\* price < (maximum price in the window) - 50000, -1 exactly when
\* VPIN < -3*10^7 and the last trade price > (minimum price in the
\* window) + 50000, and 0 in every other case, the maximum and minimum
\* ranging over exactly the retained records.
C31_TrapSignalAsSpecified ==
  getTrapSignal(signals) =
    IF signals.count < 50 THEN 0
    ELSE TrapClaimed(Window(signals)[signals.count].price,
                     WindowPrices(signals), getVPIN(signals))

(***************************************************************************)
(* Claims about the trade velocity (SpecVelocity)                          *)
(***************************************************************************)
\* newest timestamp - oldest timestamp of the retained records, in ns
WindowSpan(sg) ==
  ZSub(Window(sg)[sg.count].timestamp, Window(sg)[1].timestamp)

\* the velocity of the claim: count over the span in seconds, in doubles
VelocityClaimed(sg) ==
  IF sg.count < 2 THEN D0
  ELSE IF ZLe(WindowSpan(sg), Z0) THEN D0
  ELSE DblDiv(DblOfInt(sg.count),
              DblDiv(DblOfZ(WindowSpan(sg)), DblOfInt(1000000000)))

\* velocity > 5 exactly when count * 10^9 > 5 * span, in integers
FastExactly(sg) ==
  DblGt(getTradeVelocity(sg), DblOfInt(5))
    <=> /\ sg.count >= 2
        /\ ZGt(WindowSpan(sg), Z0)
        /\ ZGt(ZE(sg.count, 9), ZMul(ZOf(5), WindowSpan(sg)))

\* C32: getTradeVelocity returns 0 when the window holds fewer than 2
\* records or when newest timestamp - oldest timestamp <= 0; otherwise it
\* is count divided by that difference in seconds (in double arithmetic),
\* the oldest timestamp being that of the oldest retained record also
\* after the circular window has wrapped; hence velocity > 5 exactly when
\* count * 10^9 > 5 * (newest - oldest) in ns.
C32_VelocityOverWindowSpan ==
  /\ getTradeVelocity(signals) = VelocityClaimed(signals)
  /\ FastExactly(signals)

\* the full window took one more trade, 200 s less 1 ns after the record
\* that is now the oldest, in slot 8: 1000 trades in just under 200 s
C32_Witness ==
  /\ signals.count = WINDOW_SIZE
  /\ signals.head = 8
  /\ WindowSpan(signals) = ZSub(ZE(2, 11), ZOf(1))
  /\ DblGt(getTradeVelocity(signals), DblOfInt(5))

(***************************************************************************)
(* Claims about the regime classification (SpecIntegrity)                  *)
(***************************************************************************)
\* the classification of the claim, the sums taken as integers
IntegrityClaimed(stale, bk) ==
  IF stale THEN "NORMAL"
  ELSE IF ZLt(Top5Sum(bk.bids, 1), ZOf(50000000))
          \/ ZLt(Top5Sum(bk.asks, 1), ZOf(50000000))
    THEN "VACUUM_DETECTED"
  ELSE IF ZGt(bk.bids[1].size, ZOf(500000000))
          \/ ZGt(bk.asks[1].size, ZOf(500000000))
    THEN "ABSORPTION_DETECTED"
  ELSE "NORMAL"

\* C33: checkIntegrity returns NORMAL whenever the staleness flag is set;
\* otherwise VACUUM when the sum of the top-5 bid sizes or of the top-5 ask
\* sizes is below 5*10^7 (an empty side included), taking precedence over
\* ABSORPTION; otherwise ABSORPTION when the first bid size or the first
\* ask size exceeds 5*10^8; otherwise NORMAL.
C33_IntegrityAsSpecified ==
  checkIntegrity(signals, book) = IntegrityClaimed(signals.isStale, book)

(***************************************************************************)
(* Claims about the recorder's shutdown (SpecRecorderFair)                 *)
(***************************************************************************)
\* a step of the consumer out of the end of a loop pass, while the input
\* is open, goes back to polling the ring
PollsWhileOpen ==
  (cpc = "pop_ret" /\ running /\ cpc' # cpc) => cpc' = "pop_load_tail"

\* C34: once the producer's input has closed, the consumer thread
\* eventually terminates (the consumer being scheduled fairly), so main's
\* join returns; while the input is open the consumer keeps polling, also
\* when the ring is empty, and never exits.
C34_ConsumerEndsAfterInputCloses ==
  /\ (~running) ~> (cpc = "thread_end")
  /\ (~running) ~> (ppc = "exit")
  /\ [](running => cpc # "thread_end")
  /\ [][PollsWhileOpen]_cpc

\* the input closed after two lines, the consumer took both messages,
\* ended, and join returned
C34_Witness ==
  /\ ~running
  /\ cpc = "thread_end"
  /\ ppc = "exit"
  /\ Len(popped) = 2

(***************************************************************************)
(* Claims about the interleaved steps of push and pop (SpecRing)           *)
(***************************************************************************)
\* slot i lies in the occupied range, from tail up to but not including
\* head, around the ring
Occupied(i) == (i - tail + N) % N < (head - tail + N) % N

\* every index the two calls hold is an index of the buffer
IndicesInRange ==
  {head, tail, current_head, next_head, current_tail} \subseteq 0 .. N - 1

\* the slot a push is about to write is the one at head, outside the
\* occupied range, and not the slot a pop in progress reads
WriteSlotFree ==
  ppc = "push_write" =>
    /\ current_head = head
    /\ ~Occupied(current_head)
    /\ cpc \in {"pop_read", "pop_store"} => current_tail # current_head

\* the slot a pop is about to copy is occupied, it holds the oldest item
\* pushed and not yet popped, whose push has advanced head, and no push is
\* writing it
ReadSlotWritten ==
  cpc = "pop_read" =>
    /\ current_tail = tail
    /\ Occupied(current_tail)
    /\ Len(popped) < Len(pushed)
    /\ buffer[current_tail] = pushed[Len(popped) + 1]
    /\ ppc \in {"push_write", "push_store"} => current_head # current_tail

\* C35: with push and pop as separate load, slot-copy and index-store
\* steps, in every interleaving head and tail stay within [0, buffer size),
\* the slot a push writes is outside the occupied range and is not a slot
\* the consumer reads, and a pop copies only a slot whose write completed
\* before head was advanced past it.
C35_SlotsNeverShared ==
  /\ IndicesInRange
  /\ WriteSlotFree
  /\ ReadSlotWritten

\* a push writes slot 0 of a wrapped ring while a pop reads the last slot
C35_Witness ==
  /\ ppc = "push_write"
  /\ cpc = "pop_read"
  /\ current_head < current_tail
  /\ Len(pushed) = 3

(***************************************************************************)
(* Claims about the engine's resting orders (SpecTaker)                    *)
(***************************************************************************)
\* the active orders of one side that are not exits
ActiveEntries(side) ==
  {i \in 1 .. Len(orders) :
     orders[i].active /\ orders[i].side = side /\ ~orders[i].isExit}

\* C36: in every reachable state of LiveEngine, after any sequence of DEPTH
\* and TRADE lines, ticks with taker intents included, there is at most one
\* active non-exit order on the bid side and at most one on the ask side.
C36_OneActiveOrderPerSide ==
  /\ Cardinality(ActiveEntries("B")) <= 1
  /\ Cardinality(ActiveEntries("A")) <= 1

(***************************************************************************)
(* Claims about fills that take the position through zero (SpecFlip)       *)
(***************************************************************************)
\* the step took the position from one sign to the other
SignFlips ==
  \/ DblLt(position, D0) /\ DblGt(position', D0)
  \/ DblGt(position, D0) /\ DblLt(position', D0)

\* on a step whose single fill flips the sign: the balance grows by the pnl
\* of the quantity that closed the old position, |position| before the
\* step, and the entry price becomes the fill price
FlipSettles ==
  (SignFlips /\ Len(journal') = Len(journal) + 1) =>
    LET f == journal'[Len(journal')]
        gain == IF f.side = "BUY_COVER"
                  THEN DblSub(entryPrice, f.price)
                  ELSE DblSub(f.price, entryPrice)
    IN  /\ balance' = DblAdd(balance, DblMul(gain, DblAbs(position)))
        /\ entryPrice' = f.price

\* C37: when a fill is larger than the open opposite position, so that the
\* position changes sign, realized PnL is counted only on the quantity that
\* closed the old position, and the entry price of the resulting position
\* is the fill price (the volume-weighted average of the fills that opened
\* it, this fill alone).
C37_FlipRestartsPosition == [][FlipSettles]_vars

(***************************************************************************)
(* Claims about trade events and the strategy's book (SpecEngine)          *)
(***************************************************************************)
\* a step that recorded a trade in the signal engine leaves both sides of
\* the strategy's book as they were
TradeKeepsBook ==
  signals' # signals => (book'.bids = book.bids /\ book'.asks = book.asks)

\* the book getQuotes has just read is the one rebuilt from the display
\* book, the levels of the latest depth snapshot
QuotedBookIsSnapshot ==
  executed # <<>> => book = RebuiltBook(displayBook)

\* C38: a trade event passed to MarketMakerStrategy::update changes only
\* the signal engine; the bid and ask sequences of the order book are
\* unchanged, so the book read by the next getQuotes consists exactly of
\* the levels of the most recent depth snapshot.
C38_TradeLeavesBookAlone ==
  /\ [][TradeKeepsBook]_vars
  /\ []QuotedBookIsSnapshot

====
